---- MODULE Spec2Model ----
(***************************************************************************)
(* Escrow Workflow System: the state machine (domain/escrow-state.ts), the *)
(* aggregate (domain/escrow.ts), the event log model (domain/events.ts),   *)
(* the JSON-backed store (storage/escrow-store.ts) and the two request     *)
(* handlers CreateEscrow (POST /api/escrow) and ApplyAction                *)
(* (POST /api/escrow/[id]/actions).                                        *)
(***************************************************************************)
EXTENDS Integers, Sequences, FiniteSets, TLC

(***************************************************************************)
(* Bounds of the model.                                                    *)
(***************************************************************************)
\* the wall clock (milliseconds) runs over 0..MaxClock; an escrow id carries
\* the millisecond of its creation, so there are MaxClock + 1 escrow ids
MaxClock == 1

(***************************************************************************)
(* Enumerations (escrow-state.ts, events.ts).                              *)
(***************************************************************************)
EscrowState == {"PROPOSED", "FUNDED", "RELEASED", "DISPUTED", "REFUNDED"}

EscrowAction == {"FUND", "RELEASE", "DISPUTE", "RESOLVE_DISPUTE_RELEASE",
                 "RESOLVE_DISPUTE_REFUND", "REFUND"}

UserRole == {"BUYER", "SELLER", "ADMIN"}

EventType == {"ESCROW_CREATED", "STATE_CHANGED"}

\* the value of an optional field that was not given (reason?: string)
Undefined == "<undefined>"

\* the null result of getById / reconstructEscrow
Null == [null |-> TRUE]

(***************************************************************************)
(* Input domains of the requests.                                          *)
(***************************************************************************)
Times == 0..MaxClock
\* Math.random().toString(36).substr(2, 9)
Rnd == {"k3j9x2m1q"}
BuyerIds == {"buyer-123"}
SellerIds == {"seller-456"}
\* request amounts; 0 fails z.number().positive()
Amounts == {0, 1000}
Descriptions == {"Purchase of goods"}
\* performedBy; "" fails z.string().min(1)
Performers == {"", "user-1"}
\* the optional reason of a request to the ApplyAction handler
Reasons == {Undefined}
\* the optional reason of a direct call of applyAction
CallReasons == {Undefined, "item damaged"}

\* `escrow_${Date.now()}_${Math.random()...}`
EscrowIdOf(t, r) == <<"escrow", t, r>>
EscrowIds == {EscrowIdOf(t, r) : t \in Times, r \in Rnd}

(***************************************************************************)
(* State machine: escrow-state.ts                                          *)
(***************************************************************************)
isTerminalState(state) == state = "RELEASED" \/ state = "REFUNDED"

\* `No actions allowed from terminal state ${current}`
TerminalError(current) == <<"No actions allowed from terminal state ", current>>
\* `Role ${role} is not allowed to perform action ${action}`
RoleError(role, action) ==
    <<"Role ", role, " is not allowed to perform action ", action>>
\* `Invalid transition: ${current} -> (${action}) by ${role}`
InvalidError(current, action, role) ==
    <<"Invalid transition: ", current, " -> (", action, ") by ", role>>

permissionMap ==
    [a \in EscrowAction |->
        CASE a = "FUND" -> {"BUYER"}
          [] a = "RELEASE" -> {"SELLER"}
          [] a = "DISPUTE" -> {"BUYER"}
          [] a = "RESOLVE_DISPUTE_RELEASE" -> {"ADMIN"}
          [] a = "RESOLVE_DISPUTE_REFUND" -> {"ADMIN"}
          [] a = "REFUND" -> {}]

Success(newState) == [success |-> TRUE, newState |-> newState]
Failure(error) == [success |-> FALSE, error |-> error]

\* a table that also lets the seller release an escrow that was never funded
TransitionTable_UnfundedRelease(current, action, role) ==
    IF current = "PROPOSED" /\ action = "RELEASE" /\ role = "SELLER"
    THEN Success("RELEASED")
    ELSE IF current = "PROPOSED" /\ action = "FUND" /\ role = "BUYER"
    THEN Success("FUNDED")
    ELSE IF current = "FUNDED" /\ action = "RELEASE" /\ role = "SELLER"
    THEN Success("RELEASED")
    ELSE IF current = "FUNDED" /\ action = "DISPUTE" /\ role = "BUYER"
    THEN Success("DISPUTED")
    ELSE IF current = "DISPUTED" /\ action = "RESOLVE_DISPUTE_RELEASE" /\ role = "ADMIN"
    THEN Success("RELEASED")
    ELSE IF current = "DISPUTED" /\ action = "RESOLVE_DISPUTE_REFUND" /\ role = "ADMIN"
    THEN Success("REFUNDED")
    ELSE IF current \in {"RELEASED", "REFUNDED"}
    THEN Failure(TerminalError(current))
    ELSE Failure(InvalidError(current, action, role))

\* a table in which a dispute cannot be resolved: DISPUTED accepts nothing
TransitionTable_NoResolution(current, action, role) ==
    IF current = "PROPOSED" /\ action = "FUND" /\ role = "BUYER"
    THEN Success("FUNDED")
    ELSE IF current = "FUNDED" /\ action = "RELEASE" /\ role = "SELLER"
    THEN Success("RELEASED")
    ELSE IF current = "FUNDED" /\ action = "DISPUTE" /\ role = "BUYER"
    THEN Success("DISPUTED")
    ELSE IF current \in {"RELEASED", "REFUNDED"}
    THEN Failure(TerminalError(current))
    ELSE Failure(InvalidError(current, action, role))

\* the switch over `current` (lines 80-111), reached after both gates passed
TransitionTable(current, action, role) ==
    CASE current = "PROPOSED" ->
            IF action = "FUND" /\ role = "BUYER"
            THEN Success("FUNDED")
            ELSE Failure(InvalidError(current, action, role))
      [] current = "FUNDED" ->
            IF action = "RELEASE" /\ role = "SELLER"
            THEN Success("RELEASED")
            ELSE IF action = "DISPUTE" /\ role = "BUYER"
            THEN Success("DISPUTED")
            ELSE Failure(InvalidError(current, action, role))
      [] current = "DISPUTED" ->
            IF action = "RESOLVE_DISPUTE_RELEASE" /\ role = "ADMIN"
            THEN Success("RELEASED")
            ELSE IF action = "RESOLVE_DISPUTE_REFUND" /\ role = "ADMIN"
            THEN Success("REFUNDED")
            ELSE Failure(InvalidError(current, action, role))
      [] current \in {"RELEASED", "REFUNDED"} ->
            Failure(TerminalError(current))

\* the role gate evaluated before the terminal check
transitionState_RoleFirst(current, action, role) ==
    IF role \notin permissionMap[action]
    THEN Failure(RoleError(role, action))
    ELSE IF isTerminalState(current)
    THEN Failure(TerminalError(current))
    ELSE TransitionTable(current, action, role)

\* the role gate evaluated only for the rows of the table
transitionState_TableFirst(current, action, role) ==
    IF isTerminalState(current)
    THEN Failure(TerminalError(current))
    ELSE IF TransitionTable(current, action, "BUYER").success
            \/ TransitionTable(current, action, "SELLER").success
            \/ TransitionTable(current, action, "ADMIN").success
    THEN IF role \notin permissionMap[action]
         THEN Failure(RoleError(role, action))
         ELSE TransitionTable(current, action, role)
    ELSE Failure(InvalidError(current, action, role))

\* a bare REFUND that the admin may use to close a dispute
transitionState_BareRefund(current, action, role) ==
    IF isTerminalState(current)
    THEN Failure(TerminalError(current))
    ELSE IF current = "DISPUTED" /\ action = "REFUND" /\ role = "ADMIN"
    THEN Success("REFUNDED")
    ELSE IF role \notin permissionMap[action]
    THEN Failure(RoleError(role, action))
    ELSE TransitionTable(current, action, role)

\* a released escrow that the buyer may still dispute
transitionState_Reopen(current, action, role) ==
    IF current = "RELEASED" /\ action = "DISPUTE" /\ role = "BUYER"
    THEN Success("DISPUTED")
    ELSE IF isTerminalState(current)
    THEN Failure(TerminalError(current))
    ELSE IF role \notin permissionMap[action]
    THEN Failure(RoleError(role, action))
    ELSE TransitionTable(current, action, role)

transitionState(current, action, role) ==
    IF isTerminalState(current)
    THEN Failure(TerminalError(current))
    ELSE IF role \notin permissionMap[action]
    THEN Failure(RoleError(role, action))
    ELSE TransitionTable(current, action, role)

(***************************************************************************)
(* Event log model: events.ts.  Every read of the clock is a parameter.    *)
(***************************************************************************)
\* `evt_${Date.now()}_${Math.random()...}`
createEventId(tId, rnd) == <<"evt", tId, rnd>>

createEscrowCreatedEvent(escrowId, buyerId, sellerId, amount, description, tId, rnd, tStamp) ==
    [id |-> createEventId(tId, rnd),
     type |-> "ESCROW_CREATED",
     timestamp |-> tStamp,
     escrowId |-> escrowId,
     buyerId |-> buyerId,
     sellerId |-> sellerId,
     amount |-> amount,
     description |-> description]

createStateChangedEvent(escrowId, action, fromState, toState, performedBy, userRole, reason, tId, rnd, tStamp) ==
    [id |-> createEventId(tId, rnd),
     type |-> "STATE_CHANGED",
     timestamp |-> tStamp,
     escrowId |-> escrowId,
     action |-> action,
     fromState |-> fromState,
     toState |-> toState,
     performedBy |-> performedBy,
     userRole |-> userRole,
     reason |-> reason]

\* positions of the events of a given type, in sequence order
IndicesOfType(events, type) == {i \in 1..Len(events) : events[i].type = type}

Min(S) == CHOOSE x \in S : \A y \in S : x <= y
Max(S) == CHOOSE x \in S : \A y \in S : x >= y

\* a replay that stops at the first STATE_CHANGED event
reconstructStateFromEvents_FirstChange(events) ==
    IF Len(events) = 0
    THEN [state |-> Null, escrow |-> Null]
    ELSE IF IndicesOfType(events, "ESCROW_CREATED") = {}
    THEN [state |-> Null, escrow |-> Null]
    ELSE LET createdEvent == events[Min(IndicesOfType(events, "ESCROW_CREATED"))]
             changes == IndicesOfType(events, "STATE_CHANGED")
         IN  [state |-> [value |-> IF changes = {} THEN "PROPOSED"
                                   ELSE events[Min(changes)].toState],
              escrow |-> [id |-> createdEvent.escrowId,
                          buyerId |-> createdEvent.buyerId,
                          sellerId |-> createdEvent.sellerId,
                          amount |-> createdEvent.amount,
                          description |-> createdEvent.description]]

reconstructStateFromEvents(events) ==
    IF Len(events) = 0
    THEN [state |-> Null, escrow |-> Null]
    ELSE IF IndicesOfType(events, "ESCROW_CREATED") = {}
    THEN [state |-> Null, escrow |-> Null]
    ELSE LET createdEvent == events[Min(IndicesOfType(events, "ESCROW_CREATED"))]
             changes == IndicesOfType(events, "STATE_CHANGED")
         IN  [state |-> [value |-> IF changes = {} THEN "PROPOSED"
                                   ELSE events[Max(changes)].toState],
              escrow |-> [id |-> createdEvent.escrowId,
                          buyerId |-> createdEvent.buyerId,
                          sellerId |-> createdEvent.sellerId,
                          amount |-> createdEvent.amount,
                          description |-> createdEvent.description]]

(***************************************************************************)
(* Aggregate: escrow.ts                                                    *)
(***************************************************************************)
\* a createEscrow that reads the clock again for updatedAt
createEscrow_UpdatedAtLater(id, buyerId, sellerId, amount, description, now, tId, rnd, tStamp) ==
    [escrow |-> [id |-> id,
                 buyerId |-> buyerId,
                 sellerId |-> sellerId,
                 amount |-> amount,
                 description |-> description,
                 currentState |-> "PROPOSED",
                 createdAt |-> now,
                 updatedAt |-> tStamp],
     event |-> createEscrowCreatedEvent(id, buyerId, sellerId, amount,
                                        description, tId, rnd, tStamp)]

createEscrow(id, buyerId, sellerId, amount, description, now, tId, rnd, tStamp) ==
    [escrow |-> [id |-> id,
                 buyerId |-> buyerId,
                 sellerId |-> sellerId,
                 amount |-> amount,
                 description |-> description,
                 currentState |-> "PROPOSED",
                 createdAt |-> now,
                 updatedAt |-> now],
     event |-> createEscrowCreatedEvent(id, buyerId, sellerId, amount,
                                        description, tId, rnd, tStamp)]

\* a rejection that still hands back a snapshot
applyAction_SnapshotOnFailure(escrow, action, performedBy, userRole, reason, now, tId, rnd, tStamp) ==
    LET transition == transitionState(escrow.currentState, action, userRole)
    IN  IF ~transition.success
        THEN [success |-> FALSE, error |-> transition.error, newEscrow |-> escrow]
        ELSE [success |-> TRUE,
              newEscrow |-> [escrow EXCEPT !.currentState = transition.newState,
                                           !.updatedAt = now],
              event |-> createStateChangedEvent(escrow.id, action,
                            escrow.currentState, transition.newState,
                            performedBy, userRole, reason, tId, rnd, tStamp)]

\* an acceptance that stamps createdAt as well
applyAction_TouchCreatedAt(escrow, action, performedBy, userRole, reason, now, tId, rnd, tStamp) ==
    LET transition == transitionState(escrow.currentState, action, userRole)
    IN  IF ~transition.success
        THEN [success |-> FALSE, error |-> transition.error]
        ELSE [success |-> TRUE,
              newEscrow |-> [escrow EXCEPT !.currentState = transition.newState,
                                           !.createdAt = tStamp,
                                           !.updatedAt = now],
              event |-> createStateChangedEvent(escrow.id, action,
                            escrow.currentState, transition.newState,
                            performedBy, userRole, reason, tId, rnd, tStamp)]

applyAction(escrow, action, performedBy, userRole, reason, now, tId, rnd, tStamp) ==
    LET transition == transitionState(escrow.currentState, action, userRole)
    IN  IF ~transition.success
        THEN [success |-> FALSE, error |-> transition.error]
        ELSE [success |-> TRUE,
              newEscrow |-> [escrow EXCEPT !.currentState = transition.newState,
                                           !.updatedAt = now],
              event |-> createStateChangedEvent(escrow.id, action,
                            escrow.currentState, transition.newState,
                            performedBy, userRole, reason, tId, rnd, tStamp)]

reconstructEscrow(events) ==
    LET r == reconstructStateFromEvents(events)
    IN  IF r.state = Null \/ r.escrow = Null
        THEN Null
        ELSE LET createdEvent ==
                     events[Min(IndicesOfType(events, "ESCROW_CREATED"))]
             IN  [id |-> r.escrow.id,
                  buyerId |-> r.escrow.buyerId,
                  sellerId |-> r.escrow.sellerId,
                  amount |-> r.escrow.amount,
                  description |-> r.escrow.description,
                  currentState |-> r.state.value,
                  createdAt |-> createdEvent.timestamp,
                  updatedAt |-> events[Len(events)].timestamp,
                  events |-> events]

(***************************************************************************)
(* Store: storage/escrow-store.ts                                          *)
(***************************************************************************)
VARIABLES
    clock,          \* the wall clock read by Date.now() / new Date()
    cache,          \* globalThis.__ESCROW_STORE_STATE.cache : id -> EscrowData
    loaded,         \* globalThis.__ESCROW_STORE_STATE.loaded
    primaryFile,    \* content of <module root>/.data/escrows.json
    secondaryFile,  \* content of <cwd>/.data/escrows.json
    writable,       \* which of the two locations the process can write
    resp,           \* status and error of the last handler's response
    call            \* a direct call of a domain function: arguments and result

vars == <<clock, cache, loaded, primaryFile, secondaryFile, writable, resp, call>>

\* a file that does not exist
Missing == [missing |-> TRUE]

\* Date.prototype.toJSON: the ISO-8601 string of a timestamp
toISOString(t) == [iso |-> t]

\* JSON.stringify of one event: the timestamp becomes an ISO string and a
\* key whose value is undefined is omitted
StringifyEvent(ev) ==
    LET keys == IF "reason" \in DOMAIN ev /\ ev.reason = Undefined
                THEN DOMAIN ev \ {"reason"}
                ELSE DOMAIN ev
    IN  [k \in keys |-> IF k = "timestamp" THEN toISOString(ev[k]) ELSE ev[k]]

StringifyEscrow(e) ==
    [k \in DOMAIN e |-> IF k \in {"createdAt", "updatedAt"}
                        THEN toISOString(e[k]) ELSE e[k]]

\* JSON.stringify(this.cache, null, 2)
JSONstringify(c) ==
    [content |->
        [id \in DOMAIN c |->
            [escrow |-> StringifyEscrow(c[id].escrow),
             events |-> [i \in 1..Len(c[id].events) |->
                            StringifyEvent(c[id].events[i])]]]]

Locations == {"primary", "secondary"}

\* fs.writeFileSync inside try/catch: the file holds the payload, or the
\* write threw (a location the process cannot write) and the file is left
\* as it was
writeFileSync(loc, file, payload) == IF writable[loc] THEN payload ELSE file

\* a persist that writes the first location only
persist_PrimaryOnly(c) ==
    /\ primaryFile' = writeFileSync("primary", primaryFile, JSONstringify(c))
    /\ secondaryFile' = secondaryFile

\* persist(): both locations are written, each write may fail on its own
persist(c) ==
    /\ primaryFile' = writeFileSync("primary", primaryFile, JSONstringify(c))
    /\ secondaryFile' = writeFileSync("secondary", secondaryFile, JSONstringify(c))

\* a create that keeps the new entry only when both files were written
StoreCreate_WhenWritten(c, escrow, initialEvent) ==
    IF \A loc \in Locations : writable[loc]
    THEN [id \in DOMAIN c \cup {escrow.id} |->
             IF id = escrow.id
             THEN [escrow |-> escrow, events |-> <<initialEvent>>]
             ELSE c[id]]
    ELSE c

\* EscrowStore.create: state.cache[escrow.id] = { escrow, events: [initialEvent] }
StoreCreate(c, escrow, initialEvent) ==
    [id \in DOMAIN c \cup {escrow.id} |->
        IF id = escrow.id
        THEN [escrow |-> escrow, events |-> <<initialEvent>>]
        ELSE c[id]]

\* EscrowStore.getById: a copy of the snapshot with a copy of the event list
getById(c, id) ==
    IF id \notin DOMAIN c
    THEN Null
    ELSE [id |-> c[id].escrow.id,
          buyerId |-> c[id].escrow.buyerId,
          sellerId |-> c[id].escrow.sellerId,
          amount |-> c[id].escrow.amount,
          description |-> c[id].escrow.description,
          currentState |-> c[id].escrow.currentState,
          createdAt |-> c[id].escrow.createdAt,
          updatedAt |-> c[id].escrow.updatedAt,
          events |-> c[id].events]

\* an update that appends the event but keeps the snapshot it found
StoreUpdate_KeepSnapshot(c, escrow, event) ==
    [c EXCEPT ![escrow.id] = [escrow |-> c[escrow.id].escrow,
                              events |-> Append(c[escrow.id].events, event)]]

\* an update that puts the event in front of the list
StoreUpdate_Prepend(c, escrow, event) ==
    [c EXCEPT ![escrow.id] = [escrow |-> escrow,
                              events |-> <<event>> \o c[escrow.id].events]]

\* an update that rebuilds the list from its first event and the new one
StoreUpdate_FromCreation(c, escrow, event) ==
    [c EXCEPT ![escrow.id] = [escrow |-> escrow,
                              events |-> <<c[escrow.id].events[1], event>>]]

\* EscrowStore.update on an id that exists:
\* state.cache[escrow.id] = { escrow, events: [...data.events, event] }
StoreUpdate(c, escrow, event) ==
    [c EXCEPT ![escrow.id] = [escrow |-> escrow,
                              events |-> Append(c[escrow.id].events, event)]]

(***************************************************************************)
(* Request handlers                                                        *)
(***************************************************************************)
\* createEscrowSchema (lib/validation.ts)
createEscrowSchemaOk(buyerId, sellerId, amount, description) ==
    /\ buyerId /= ""
    /\ sellerId /= ""
    /\ amount > 0
    /\ description /= ""

\* performActionSchema (lib/validation.ts)
performActionSchemaOk(action, performedBy, userRole) ==
    /\ action \in EscrowAction
    /\ performedBy /= ""
    /\ userRole \in UserRole

\* the snapshot handed to applyAction by the ApplyAction handler (lines 32-41)
SnapshotOf(escrowData) ==
    [id |-> escrowData.id,
     buyerId |-> escrowData.buyerId,
     sellerId |-> escrowData.sellerId,
     amount |-> escrowData.amount,
     description |-> escrowData.description,
     currentState |-> escrowData.currentState,
     createdAt |-> escrowData.createdAt,
     updatedAt |-> escrowData.updatedAt]

NoResp == [op |-> "none"]
NoCall == [pc |-> "none"]

\* the clock reads of one handler run: each read is at or after the previous
\* one, and the clock stands at the last read when the handler returns
LaterReads(t) == t..MaxClock

\* time passes between two requests
Tick ==
    /\ clock < MaxClock
    /\ clock' = clock + 1
    /\ UNCHANGED <<cache, loaded, primaryFile, secondaryFile, writable, resp, call>>

\* POST /api/escrow with a body that createEscrowSchema rejects: 400
CreateEscrowInvalid(buyerId, sellerId, amount, description) ==
    /\ ~createEscrowSchemaOk(buyerId, sellerId, amount, description)
    /\ resp' = [op |-> "create", status |-> 400, error |-> <<"Validation error">>]
    /\ UNCHANGED <<clock, cache, loaded, primaryFile, secondaryFile, writable, call>>

\* POST /api/escrow: generate the id, createEscrow, escrowStore.create, 201
CreateEscrow(buyerId, sellerId, amount, description, rndId, rndEvt) ==
    /\ createEscrowSchemaOk(buyerId, sellerId, amount, description)
    /\ loaded
    /\ \E now \in LaterReads(clock) :
       \E tId \in LaterReads(now) :
       \E tStamp \in LaterReads(tId) :
          LET id == EscrowIdOf(clock, rndId)
              made == createEscrow(id, buyerId, sellerId, amount, description,
                                   now, tId, rndEvt, tStamp)
          IN  /\ cache' = StoreCreate(cache, made.escrow, made.event)
              /\ persist(cache')
              /\ clock' = tStamp
              /\ resp' = [op |-> "create", status |-> 201]
    /\ UNCHANGED <<loaded, writable, call>>

\* POST /api/escrow/[id]/actions with a body that performActionSchema rejects
ApplyActionInvalid(action, performedBy, userRole) ==
    /\ ~performActionSchemaOk(action, performedBy, userRole)
    /\ resp' = [op |-> "apply", status |-> 400, error |-> <<"Validation error">>]
    /\ UNCHANGED <<clock, cache, loaded, primaryFile, secondaryFile, writable, call>>

\* POST /api/escrow/[id]/actions, getById returns null: 404
ApplyActionNotFound(id, action, performedBy, userRole) ==
    /\ performActionSchemaOk(action, performedBy, userRole)
    /\ loaded
    /\ getById(cache, id) = Null
    /\ resp' = [op |-> "apply", status |-> 404, error |-> <<"Escrow not found">>]
    /\ UNCHANGED <<clock, cache, loaded, primaryFile, secondaryFile, writable, call>>

\* POST /api/escrow/[id]/actions, applyAction fails: 400 with its error
\* (applyAction reads the clock only after the transition was accepted)
ApplyActionRejected(id, action, performedBy, userRole, reason) ==
    /\ performActionSchemaOk(action, performedBy, userRole)
    /\ loaded
    /\ getById(cache, id) /= Null
    /\ LET result == applyAction(SnapshotOf(getById(cache, id)), action,
                                 performedBy, userRole, reason,
                                 clock, clock, CHOOSE r \in Rnd : TRUE, clock)
       IN  /\ ~result.success
           /\ resp' = [op |-> "apply", status |-> 400, error |-> result.error]
    /\ UNCHANGED <<clock, cache, loaded, primaryFile, secondaryFile, writable, call>>

\* POST /api/escrow/[id]/actions, applyAction succeeds: escrowStore.update, 200
ApplyActionAccepted(id, action, performedBy, userRole, reason, rndEvt) ==
    /\ performActionSchemaOk(action, performedBy, userRole)
    /\ loaded
    /\ getById(cache, id) /= Null
    /\ \E tId \in LaterReads(clock) :
       \E tStamp \in LaterReads(tId) :
          LET result == applyAction(SnapshotOf(getById(cache, id)), action,
                                    performedBy, userRole, reason,
                                    clock, tId, rndEvt, tStamp)
          IN  /\ result.success
              /\ cache' = StoreUpdate(cache, result.newEscrow, result.event)
              /\ persist(cache')
              /\ clock' = tStamp
              /\ resp' = [op |-> "apply", status |-> 200]
    /\ UNCHANGED <<loaded, writable, call>>

\* the state after the module-level `new EscrowStore()` of a fresh deployment:
\* neither file exists, the reconciled map is empty, and the primary file is
\* written unless that write fails.  Which locations can be written is a
\* property of the deployment (a read-only file system fails every write).
Init ==
    /\ clock = 0
    /\ cache = << >>
    /\ loaded = TRUE
    /\ writable \in [Locations -> BOOLEAN]
    /\ primaryFile = writeFileSync("primary", Missing, JSONstringify(<< >>))
    /\ secondaryFile = Missing
    /\ resp = NoResp
    /\ call = NoCall

Next ==
    \/ Tick
    \/ \E b \in BuyerIds, s \in SellerIds, a \in Amounts, d \in Descriptions :
          CreateEscrowInvalid(b, s, a, d)
    \/ \E b \in BuyerIds, s \in SellerIds, a \in Amounts, d \in Descriptions,
          r1 \in Rnd, r2 \in Rnd :
          CreateEscrow(b, s, a, d, r1, r2)
    \/ \E a \in {"FUND", "CANCEL"}, by \in Performers, role \in {"BUYER"} :
          ApplyActionInvalid(a, by, role)
    \/ \E id \in EscrowIds, a \in {"FUND"}, by \in Performers \ {""},
          role \in {"BUYER"} :
          ApplyActionNotFound(id, a, by, role)
    \/ \E id \in EscrowIds, a \in EscrowAction, by \in Performers \ {""},
          role \in UserRole, reason \in Reasons :
          ApplyActionRejected(id, a, by, role, reason)
    \/ \E id \in EscrowIds, a \in EscrowAction, by \in Performers \ {""},
          role \in UserRole, reason \in Reasons, r \in Rnd :
          ApplyActionAccepted(id, a, by, role, reason, r)

Spec == Init /\ [][Next]_vars

(***************************************************************************)
(* The handlers with participants who keep acting: for every stored escrow *)
(* that can accept an action, some accepted ApplyAction request is         *)
(* eventually made. The random part of a new id differs from that of the   *)
(* ids already stored, so CreateEscrow stores a new escrow.                *)
(***************************************************************************)
\* POST /api/escrow whose generated id is not stored yet
CreateEscrowFresh(buyerId, sellerId, amount, description, rndId, rndEvt) ==
    /\ EscrowIdOf(clock, rndId) \notin DOMAIN cache
    /\ CreateEscrow(buyerId, sellerId, amount, description, rndId, rndEvt)

\* some accepted ApplyAction request for the escrow `id`
AcceptedFor(id) ==
    \E a \in EscrowAction, by \in Performers \ {""}, role \in UserRole,
       reason \in Reasons, r \in Rnd :
       ApplyActionAccepted(id, a, by, role, reason, r)

\* a deployment whose two locations can be written
InitLive ==
    /\ Init
    /\ \A loc \in Locations : writable[loc]

\* requests answered 400 or 404 change nothing but the response and are left
\* out here
NextLive ==
    \/ Tick
    \/ \E b \in BuyerIds, s \in SellerIds, a \in Amounts, d \in Descriptions,
          r1 \in Rnd, r2 \in Rnd :
          CreateEscrowFresh(b, s, a, d, r1, r2)
    \/ \E id \in EscrowIds : AcceptedFor(id)

SpecLive ==
    /\ InitLive
    /\ [][NextLive]_vars
    /\ \A id \in EscrowIds : WF_vars(AcceptedFor(id))

(***************************************************************************)
(* Direct calls of the domain functions, as the unit tests make them: the  *)
(* arguments are drawn from the whole input space, the call computes the   *)
(* result.                                                                 *)
(***************************************************************************)
\* snapshots handed to applyAction: every state, any pair of timestamps
CallSnapshots ==
    [id : {EscrowIdOf(0, r) : r \in Rnd},
     buyerId : BuyerIds,
     sellerId : SellerIds,
     amount : Amounts \ {0},
     description : Descriptions,
     currentState : EscrowState,
     createdAt : {0},
     updatedAt : Times]

CallArgs ==
    [pc : {"ready"},
     fn : {"transitionState", "applyAction"},
     escrow : CallSnapshots,
     action : EscrowAction,
     performedBy : Performers \ {""},
     userRole : UserRole,
     reason : CallReasons]

\* a call of transitionState takes only the state, the action and the role
CallArgsOk(c) ==
    c.fn = "transitionState" =>
        /\ c.reason = Undefined
        /\ c.escrow.updatedAt = 0

\* the longest event sequence handed to reconstructEscrow
MaxReplayLen == 3

\* events handed to reconstructEscrow: the ESCROW_CREATED event of one escrow
\* and STATE_CHANGED events of its FUND and RELEASE transitions
ReplayEvents ==
    LET id == EscrowIdOf(0, "k3j9x2m1q")
    IN  {createEscrowCreatedEvent(id, "buyer-123", "seller-456", 1000, "Purchase of goods", 0, "k3j9x2m1q", 0)}
        \cup {createStateChangedEvent(id, "FUND", "PROPOSED", "FUNDED", "user-1", "BUYER", Undefined, t, "k3j9x2m1q", t) : t \in Times}
        \cup {createStateChangedEvent(id, "RELEASE", "FUNDED", "RELEASED", "user-1", "SELLER", Undefined, t, "k3j9x2m1q", t) : t \in Times}

\* a call of reconstructEscrow takes any sequence of events, in any order
ReconstructArgs ==
    [pc : {"ready"},
     fn : {"reconstructEscrow"},
     events : UNION {[1..n -> ReplayEvents] : n \in 0..MaxReplayLen}]

\* a page that also offers REFUND to the admin of a disputed escrow
getAvailableActions_OfferRefund(selectedEscrow, currentUser) ==
    IF selectedEscrow = Null
    THEN << >>
    ELSE LET state == selectedEscrow.escrow.currentState
             role == currentUser
         IN  (IF state = "PROPOSED" /\ role = "BUYER" THEN <<"FUND">> ELSE << >>)
             \o (IF state = "FUNDED" /\ role = "SELLER" THEN <<"RELEASE">> ELSE << >>)
             \o (IF state = "FUNDED" /\ role = "BUYER" THEN <<"DISPUTE">> ELSE << >>)
             \o (IF state = "DISPUTED" /\ role = "ADMIN"
                 THEN <<"RESOLVE_DISPUTE_RELEASE", "RESOLVE_DISPUTE_REFUND", "REFUND">>
                 ELSE << >>)

\* getAvailableActions of the page (page.tsx): the array the pushes build,
\* for the selected escrow and the role chosen in the page
getAvailableActions(selectedEscrow, currentUser) ==
    IF selectedEscrow = Null
    THEN << >>
    ELSE LET state == selectedEscrow.escrow.currentState
             role == currentUser
         IN  (IF state = "PROPOSED" /\ role = "BUYER" THEN <<"FUND">> ELSE << >>)
             \o (IF state = "FUNDED"
                 THEN (IF role = "SELLER" THEN <<"RELEASE">> ELSE << >>)
                      \o (IF role = "BUYER" THEN <<"DISPUTE">> ELSE << >>)
                 ELSE << >>)
             \o (IF state = "DISPUTED" /\ role = "ADMIN"
                 THEN <<"RESOLVE_DISPUTE_RELEASE", "RESOLVE_DISPUTE_REFUND">>
                 ELSE << >>)

\* the page state getAvailableActions reads: no escrow selected, or a
\* selected escrow in any state, and the current user's role
AvailableArgs ==
    [pc : {"ready"},
     fn : {"getAvailableActions"},
     selectedEscrow : {Null} \cup [escrow : {e \in CallSnapshots : e.updatedAt = 0}],
     currentUser : UserRole]

InitFn ==
    /\ clock \in Times
    /\ cache = << >>
    /\ loaded = TRUE
    /\ writable = [l \in Locations |-> TRUE]
    /\ primaryFile = JSONstringify(<< >>)
    /\ secondaryFile = Missing
    /\ resp = NoResp
    /\ call \in {c \in CallArgs : CallArgsOk(c) /\ c.escrow.updatedAt <= clock}
                \cup ReconstructArgs
                \cup AvailableArgs

\* transitionState(current, action, role)
CallTransitionState ==
    /\ call.pc = "ready"
    /\ call.fn = "transitionState"
    /\ call' = [pc |-> "done",
                fn |-> call.fn,
                escrow |-> call.escrow,
                action |-> call.action,
                performedBy |-> call.performedBy,
                userRole |-> call.userRole,
                reason |-> call.reason,
                result |-> transitionState(call.escrow.currentState,
                                           call.action, call.userRole)]
    /\ UNCHANGED <<clock, cache, loaded, primaryFile, secondaryFile, writable, resp>>

\* applyAction(escrow, action, performedBy, userRole, reason)
CallApplyAction ==
    /\ call.pc = "ready"
    /\ call.fn = "applyAction"
    /\ \E tId \in LaterReads(clock) :
       \E tStamp \in LaterReads(tId) :
       \E rnd \in Rnd :
          /\ call' = [pc |-> "done",
                      fn |-> call.fn,
                      escrow |-> call.escrow,
                      action |-> call.action,
                      performedBy |-> call.performedBy,
                      userRole |-> call.userRole,
                      reason |-> call.reason,
                      result |-> applyAction(call.escrow, call.action,
                                     call.performedBy, call.userRole,
                                     call.reason, clock, tId, rnd, tStamp)]
          /\ clock' = IF call'.result.success THEN tStamp ELSE clock
    /\ UNCHANGED <<cache, loaded, primaryFile, secondaryFile, writable, resp>>

\* reconstructEscrow(events)
CallReconstructEscrow ==
    /\ call.pc = "ready"
    /\ call.fn = "reconstructEscrow"
    /\ call' = [pc |-> "done",
                fn |-> call.fn,
                events |-> call.events,
                result |-> reconstructEscrow(call.events)]
    /\ UNCHANGED <<clock, cache, loaded, primaryFile, secondaryFile, writable, resp>>

\* getAvailableActions()
CallGetAvailableActions ==
    /\ call.pc = "ready"
    /\ call.fn = "getAvailableActions"
    /\ call' = [pc |-> "done",
                fn |-> call.fn,
                selectedEscrow |-> call.selectedEscrow,
                currentUser |-> call.currentUser,
                result |-> getAvailableActions(call.selectedEscrow, call.currentUser)]
    /\ UNCHANGED <<clock, cache, loaded, primaryFile, secondaryFile, writable, resp>>

NextFn ==
    \/ CallTransitionState
    \/ CallApplyAction
    \/ CallReconstructEscrow
    \/ CallGetAvailableActions

SpecFn == InitFn /\ [][NextFn]_vars

(***************************************************************************)
(* Direct calls of the store, as the integration tests make them: create,  *)
(* update, getById and clear with any snapshot and any event.              *)
(***************************************************************************)
\* the longest event list the store is driven to
MaxEvents == 3

\* ids of escrows handed to the store
TestIds == {"test-escrow-1", "test-escrow-2"}

\* snapshots handed to store.create and store.update
StoreSnapshots ==
    [id : TestIds,
     buyerId : BuyerIds,
     sellerId : SellerIds,
     amount : Amounts \ {0},
     description : Descriptions,
     currentState : {"PROPOSED", "FUNDED"},
     createdAt : {0},
     updatedAt : {0}]

\* events handed to store.create and store.update for the escrow `id`
StoreEvents(id) ==
    {createEscrowCreatedEvent(id, "buyer-123", "seller-456", 1000, "Purchase of goods", 0, "k3j9x2m1q", 0),
     createStateChangedEvent(id, "FUND", "PROPOSED", "FUNDED", "user-1", "BUYER", Undefined, 0, "k3j9x2m1q", 0)}

\* new Error(`Escrow ${escrow.id} not found`)
NotFoundError(id) == <<"Escrow ", id, " not found">>

\* an update that creates the entry it does not find
update_Upsert(c, escrow, event) ==
    IF escrow.id \notin DOMAIN c
    THEN [threw |-> FALSE, cache |-> StoreCreate(c, escrow, event)]
    ELSE [threw |-> FALSE, cache |-> StoreUpdate(c, escrow, event)]

\* an update that refuses a terminal stored state and a foreign event
update_Guarded(c, escrow, event) ==
    IF escrow.id \notin DOMAIN c
    THEN [threw |-> TRUE, error |-> NotFoundError(escrow.id), cache |-> c]
    ELSE IF isTerminalState(c[escrow.id].escrow.currentState) \/ event.escrowId /= escrow.id
    THEN [threw |-> TRUE, error |-> <<"Escrow ", escrow.id, " rejected">>, cache |-> c]
    ELSE [threw |-> FALSE, cache |-> StoreUpdate(c, escrow, event)]

\* EscrowStore.update: throws before it touches the map when the id is not
\* stored, replaces the entry otherwise
update(c, escrow, event) ==
    IF escrow.id \notin DOMAIN c
    THEN [threw |-> TRUE, error |-> NotFoundError(escrow.id), cache |-> c]
    ELSE [threw |-> FALSE, cache |-> StoreUpdate(c, escrow, event)]

\* escrowStore.create(escrow, initialEvent)
StoreCreateCall(escrow, initialEvent) ==
    /\ loaded
    /\ cache' = StoreCreate(cache, escrow, initialEvent)
    /\ persist(cache')
    /\ call' = [pc |-> "done", fn |-> "store.create", id |-> escrow.id,
                escrow |-> escrow, event |-> initialEvent, threw |-> FALSE]
    /\ UNCHANGED <<clock, loaded, writable, resp>>

\* escrowStore.update(escrow, event)
StoreUpdateCall(escrow, event) ==
    /\ loaded
    /\ escrow.id \in DOMAIN cache => Len(cache[escrow.id].events) < MaxEvents
    /\ LET r == update(cache, escrow, event)
       IN  /\ cache' = r.cache
           /\ IF r.threw
              THEN /\ UNCHANGED <<primaryFile, secondaryFile>>
                   /\ call' = [pc |-> "done", fn |-> "store.update", id |-> escrow.id,
                               escrow |-> escrow, event |-> event, threw |-> TRUE,
                               error |-> r.error]
              ELSE /\ persist(cache')
                   /\ call' = [pc |-> "done", fn |-> "store.update", id |-> escrow.id,
                               escrow |-> escrow, event |-> event, threw |-> FALSE]
    /\ UNCHANGED <<clock, loaded, writable, resp>>

\* escrowStore.getById(id): `result` is the value as it was returned, `held`
\* the same object in the hands of the caller
StoreGetByIdCall(id) ==
    /\ loaded
    /\ call' = [pc |-> "done", fn |-> "store.getById", id |-> id, threw |-> FALSE,
                result |-> getById(cache, id),
                held |-> getById(cache, id)]
    /\ UNCHANGED <<clock, cache, loaded, primaryFile, secondaryFile, writable, resp>>

\* listAll(): a copy of every stored entry (the order of Object.values is
\* left out: the result is modelled as the set of its elements)
listAll(c) == {getById(c, id) : id \in DOMAIN c}

\* escrowStore.listAll()
StoreListAllCall ==
    /\ loaded
    /\ call' = [pc |-> "done", fn |-> "store.listAll", threw |-> FALSE,
                result |-> listAll(cache)]
    /\ UNCHANGED <<clock, cache, loaded, primaryFile, secondaryFile, writable, resp>>

\* escrowStore.clear(), on a store object (its constructor has loaded)
StoreClearCall ==
    /\ loaded
    /\ cache' = << >>
    /\ loaded' = TRUE
    /\ persist(cache')
    /\ call' = [pc |-> "done", fn |-> "store.clear", threw |-> FALSE]
    /\ UNCHANGED <<clock, writable, resp>>

(***************************************************************************)
(* Two update calls for one stored id, issued before either has run. A     *)
(* call of update is synchronous from its lookup to the end of persist, so *)
(* the runtime runs the two calls one after the other, in either order.    *)
(***************************************************************************)
\* entries left in the store by earlier create and update calls: an escrow
\* as created at time 0, or funded at a later time t
StoredEntries(id) ==
    LET created == createEscrowCreatedEvent(id, "buyer-123", "seller-456", 1000, "Purchase of goods", 0, "k3j9x2m1q", 0)
        funded(t) == createStateChangedEvent(id, "FUND", "PROPOSED", "FUNDED", "user-1", "BUYER", Undefined, t, "k3j9x2m1q", t)
        snapshot(state, t) ==
            [id |-> id, buyerId |-> "buyer-123", sellerId |-> "seller-456",
             amount |-> 1000, description |-> "Purchase of goods",
             currentState |-> state, createdAt |-> 0, updatedAt |-> t]
    IN  {[escrow |-> snapshot("PROPOSED", 0), events |-> <<created>>]}
        \cup {[escrow |-> snapshot("FUNDED", t), events |-> <<created, funded(t)>>] : t \in Times}

\* maps of the store: some of the ids, each with one of its entries
StoredMaps ==
    UNION {{m \in [ids -> UNION {StoredEntries(id) : id \in ids}] :
               \A id \in ids : m[id] \in StoredEntries(id)} : ids \in SUBSET TestIds}

\* the arguments of one update call for the escrow `id`
UpdateArgs(id) ==
    {[escrow |-> e, event |-> ev] : e \in {x \in StoreSnapshots : x.id = id},
                                    ev \in StoreEvents(id)}

InitRace ==
    /\ clock = 0
    /\ loaded = TRUE
    /\ writable \in [Locations -> BOOLEAN]
    /\ cache \in StoredMaps \ {<< >>}
    /\ primaryFile = writeFileSync("primary", Missing, JSONstringify(cache))
    /\ secondaryFile = writeFileSync("secondary", Missing, JSONstringify(cache))
    /\ resp = NoResp
    /\ \E id \in DOMAIN cache :
          call \in [pc : {"issued"},
                    fn : {"store.update x 2"},
                    id : {id},
                    base : {cache[id].events},
                    pending : [1..2 -> UpdateArgs(id)],
                    ran : {<< >>}]

\* the runtime runs the pending call i to completion
RunUpdate(i) ==
    /\ call.pc = "issued"
    /\ i \in 1..2
    /\ \A k \in 1..Len(call.ran) : call.ran[k] /= i
    /\ LET r == update(cache, call.pending[i].escrow, call.pending[i].event)
       IN  /\ ~r.threw
           /\ cache' = r.cache
           /\ persist(cache')
    /\ call' = [call EXCEPT !.ran = Append(call.ran, i),
                            !.pc = IF Len(call.ran) = 1 THEN "done" ELSE "issued"]
    /\ UNCHANGED <<clock, loaded, writable, resp>>

NextRace == \E i \in 1..2 : RunUpdate(i)

SpecRace == InitRace /\ [][NextRace]_vars

(***************************************************************************)
(* What a caller can do with the value returned by getById. The value is   *)
(* `{...data.escrow, events: [...data.events]}`: a new object and a new    *)
(* array, whose fields and slots point to the objects the stored entry     *)
(* points to.                                                              *)
(***************************************************************************)
\* the objects reachable from the returned value
ResultObject == <<"result", 0>>
EventsArray == <<"events", 0>>
DateObject(field) == <<field, 0>>
EventObject(i) == <<"events", i>>

\* the objects of the returned value that are the stored entry's own: the
\* spread copies the two Date references of the snapshot and the array
\* literal copies the references to the event objects
SharedObjects(c, id) ==
    {DateObject("createdAt"), DateObject("updatedAt")}
        \cup {EventObject(i) : i \in 1..Len(c[id].events)}

\* a write to `object` of the held value: the store sees it when the object
\* is one of its own
WriteThrough(object, written) ==
    cache' = IF object \in SharedObjects(cache, call.id) THEN written ELSE cache

HoldsResult ==
    /\ call.pc = "done"
    /\ call.fn = "store.getById"
    /\ call.held /= Null

\* result.currentState = state
CallerAssignsField(state) ==
    /\ HoldsResult
    /\ call' = [call EXCEPT !.held.currentState = state]
    /\ WriteThrough(ResultObject,
                    [cache EXCEPT ![call.id].escrow.currentState = state])
    /\ UNCHANGED <<clock, loaded, primaryFile, secondaryFile, writable, resp>>

\* result.events.pop()
CallerPopsEvents ==
    /\ HoldsResult
    /\ Len(call.held.events) > 0
    /\ LET n == Len(call.held.events)
       IN  /\ call' = [call EXCEPT !.held.events = SubSeq(call.held.events, 1, n - 1)]
           /\ WriteThrough(EventsArray,
                           [cache EXCEPT ![call.id].events =
                                SubSeq(cache[call.id].events, 1, n - 1)])
    /\ UNCHANGED <<clock, loaded, primaryFile, secondaryFile, writable, resp>>

\* result.events[i].timestamp = new Date(t)
CallerAssignsEventField(i, t) ==
    /\ HoldsResult
    /\ i \in 1..Len(call.held.events)
    /\ call' = [call EXCEPT !.held.events[i].timestamp = t]
    /\ WriteThrough(EventObject(i),
                    [cache EXCEPT ![call.id].events[i].timestamp = t])
    /\ UNCHANGED <<clock, loaded, primaryFile, secondaryFile, writable, resp>>

\* result.createdAt.setTime(t), result.updatedAt.setTime(t)
CallerSetsDate(field, t) ==
    /\ HoldsResult
    /\ field \in {"createdAt", "updatedAt"}
    /\ call' = [call EXCEPT !.held[field] = t]
    /\ WriteThrough(DateObject(field),
                    [cache EXCEPT ![call.id].escrow[field] = t])
    /\ UNCHANGED <<clock, loaded, primaryFile, secondaryFile, writable, resp>>

\* the process holds some escrows, all written to both files
InitView ==
    /\ clock = 0
    /\ loaded = TRUE
    /\ writable = [l \in Locations |-> TRUE]
    /\ cache \in StoredMaps
    /\ primaryFile = JSONstringify(cache)
    /\ secondaryFile = JSONstringify(cache)
    /\ resp = NoResp
    /\ call = NoCall

NextView ==
    \/ \E id \in TestIds : StoreGetByIdCall(id)
    \/ CallerAssignsField("RELEASED")
    \/ CallerPopsEvents
    \/ \E i \in 1..MaxEvents : CallerAssignsEventField(i, MaxClock)
    \/ \E field \in {"createdAt", "updatedAt"} : CallerSetsDate(field, MaxClock)

SpecView == InitView /\ [][NextView]_vars

(***************************************************************************)
(* Start of a process: `new EscrowStore()` at module load reads the two    *)
(* files and reconciles them into the process-wide map.                    *)
(***************************************************************************)
\* a file whose content JSON.parse rejects, and a file of length zero
Corrupt == [corrupt |-> TRUE]
Empty == [empty |-> TRUE]

\* new Date(isoString)
newDate(s) == s.iso

\* the revival of one parsed entry: createdAt, updatedAt and every event's
\* timestamp become Dates again; a key JSON.stringify left out stays absent
Revive(data) ==
    [escrow |-> [k \in DOMAIN data.escrow |->
                    IF k \in {"createdAt", "updatedAt"}
                    THEN newDate(data.escrow[k]) ELSE data.escrow[k]],
     events |-> [i \in 1..Len(data.events) |->
                    [k \in DOMAIN data.events[i] |->
                        IF k = "timestamp"
                        THEN newDate(data.events[i][k]) ELSE data.events[i][k]]]]

\* an entry the revival loop can walk: it has a snapshot and an event list
Revivable(data) == "escrow" \in DOMAIN data /\ "events" \in DOMAIN data

\* a reader that skips the entries it cannot revive and returns the others
readFileIfExists_SkipBadEntries(file) ==
    IF "missing" \in DOMAIN file THEN Null
    ELSE IF "corrupt" \in DOMAIN file THEN Null
    ELSE IF "empty" \in DOMAIN file THEN << >>
    ELSE [id \in {k \in DOMAIN file.content : Revivable(file.content[k])} |->
             Revive(file.content[id])]

\* readFileIfExists: null for a file that is missing, cannot be read or
\* parsed, or holds an entry whose revival throws; the empty map for an
\* empty file; the revived map otherwise
readFileIfExists(file) ==
    IF "missing" \in DOMAIN file THEN Null
    ELSE IF "corrupt" \in DOMAIN file THEN Null
    ELSE IF "empty" \in DOMAIN file THEN << >>
    ELSE IF \E id \in DOMAIN file.content : ~Revivable(file.content[id]) THEN Null
    ELSE [id \in DOMAIN file.content |-> Revive(file.content[id])]

\* `x ?? {}`
OrEmpty(x) == IF x = Null THEN << >> ELSE x

\* a reconciliation that keeps the first location's entry whenever it has one
merged_PreferPrimary(a, b) ==
    [key \in DOMAIN a \cup DOMAIN b |-> IF key \in DOMAIN a THEN a[key] ELSE b[key]]

\* a reconciliation that keeps the second location's entry on equal updatedAt
merged_SecondaryOnTie(a, b) ==
    [key \in DOMAIN a \cup DOMAIN b |->
        IF key \in DOMAIN a /\ key \in DOMAIN b
        THEN IF a[key].escrow.updatedAt > b[key].escrow.updatedAt
             THEN a[key]
             ELSE b[key]
        ELSE IF key \in DOMAIN a THEN a[key] ELSE b[key]]

\* the loop of ensureLoaded over the keys of both sources
merged(a, b) ==
    [key \in DOMAIN a \cup DOMAIN b |->
        IF key \in DOMAIN a /\ key \in DOMAIN b
        THEN IF a[key].escrow.updatedAt >= b[key].escrow.updatedAt
             THEN a[key]
             ELSE b[key]
        ELSE IF key \in DOMAIN a THEN a[key] ELSE b[key]]

\* an ensureLoaded that reads the files again whatever the process has loaded
ensureLoadedMap_Reload(isLoaded, c, primary, secondary) ==
    merged(OrEmpty(readFileIfExists(primary)), OrEmpty(readFileIfExists(secondary)))

\* the map ensureLoaded leaves: the process-wide one when the process has
\* loaded already, the reconciliation of the two files otherwise
ensureLoadedMap(isLoaded, c, primary, secondary) ==
    IF isLoaded
    THEN c
    ELSE merged(OrEmpty(readFileIfExists(primary)), OrEmpty(readFileIfExists(secondary)))

\* a load that writes the reconciled map back to both locations
ensureLoaded_WriteBack ==
    /\ ~loaded
    /\ cache' = ensureLoadedMap(loaded, cache, primaryFile, secondaryFile)
    /\ loaded' = TRUE
    /\ persist(cache')
    /\ call' = [pc |-> "done", fn |-> "new EscrowStore",
                primary |-> primaryFile, secondary |-> secondaryFile]
    /\ UNCHANGED <<clock, writable, resp>>

\* ensureLoaded of the first store object of a process
ensureLoaded ==
    /\ ~loaded
    /\ cache' = ensureLoadedMap(loaded, cache, primaryFile, secondaryFile)
    /\ loaded' = TRUE
    /\ primaryFile' = IF "missing" \in DOMAIN primaryFile
                      THEN writeFileSync("primary", primaryFile, JSONstringify(cache'))
                      ELSE primaryFile
    /\ call' = [pc |-> "done", fn |-> "new EscrowStore",
                primary |-> primaryFile, secondary |-> secondaryFile]
    /\ UNCHANGED <<clock, secondaryFile, writable, resp>>

\* a file that parses, with the entry of `id` lacking its snapshot
Damaged(m, id) ==
    [content |-> [k \in DOMAIN m |->
                     IF k = id
                     THEN [events |-> JSONstringify(m).content[k].events]
                     ELSE JSONstringify(m).content[k]]]

\* what a file can hold when a process starts
FileContents ==
    {Missing, Corrupt, Empty}
        \cup {JSONstringify(m) : m \in StoredMaps}
        \cup {Damaged(m, id) : m \in StoredMaps \ {<< >>}, id \in TestIds}

InitLoad ==
    /\ clock = 0
    /\ cache = << >>
    /\ loaded = FALSE
    /\ writable \in [Locations -> BOOLEAN]
    /\ primaryFile \in FileContents
    /\ secondaryFile \in FileContents
    /\ resp = NoResp
    /\ call = NoCall

\* one more `new EscrowStore()` in a process that has loaded: the constructor
\* calls ensureLoaded, which points this.cache at the process-wide map
StoreNewCall ==
    /\ loaded
    /\ cache' = ensureLoadedMap(loaded, cache, primaryFile, secondaryFile)
    /\ call' = [pc |-> "done", fn |-> "store.new", threw |-> FALSE]
    /\ UNCHANGED <<clock, loaded, primaryFile, secondaryFile, writable, resp>>

\* the store-level calls of a process that has loaded
NextStore ==
    \/ \E escrow \in StoreSnapshots : \E ev \in StoreEvents(escrow.id) :
          StoreCreateCall(escrow, ev)
    \/ \E escrow \in StoreSnapshots : \E ev \in StoreEvents(escrow.id) :
          StoreUpdateCall(escrow, ev)
    \/ \E id \in TestIds : StoreGetByIdCall(id)
    \/ StoreListAllCall
    \/ StoreClearCall
    \/ StoreNewCall

SpecStore == Init /\ [][NextStore]_vars

\* the load of a process and the calls after it that write no file
NextLoad ==
    \/ ensureLoaded
    \/ \E id \in TestIds : StoreGetByIdCall(id)
    \/ StoreListAllCall
    \/ StoreNewCall

SpecLoad == InitLoad /\ [][NextLoad]_vars

(***************************************************************************)
(* One update call with arguments the domain would never produce: any      *)
(* snapshot and any event, against any stored entry.                       *)
(***************************************************************************)
\* snapshots of any state handed to store.update
AnySnapshots ==
    [id : TestIds,
     buyerId : BuyerIds,
     sellerId : SellerIds,
     amount : Amounts \ {0},
     description : Descriptions,
     currentState : EscrowState,
     createdAt : {0},
     updatedAt : {0}]

\* events of any escrow handed to store.update
AnyEvents ==
    UNION {{createEscrowCreatedEvent(id, "buyer-123", "seller-456", 1000, "Purchase of goods", 0, "k3j9x2m1q", 0),
            createStateChangedEvent(id, "FUND", "PROPOSED", "FUNDED", "user-1", "BUYER", Undefined, 0, "k3j9x2m1q", 0),
            createStateChangedEvent(id, "RELEASE", "FUNDED", "RELEASED", "user-1", "SELLER", Undefined, 0, "k3j9x2m1q", 0)}
           : id \in TestIds}

\* the entry of an escrow that was created, funded and released
ReleasedEntry(id) ==
    [escrow |-> [id |-> id, buyerId |-> "buyer-123", sellerId |-> "seller-456",
                 amount |-> 1000, description |-> "Purchase of goods",
                 currentState |-> "RELEASED", createdAt |-> 0, updatedAt |-> 0],
     events |-> <<createEscrowCreatedEvent(id, "buyer-123", "seller-456", 1000, "Purchase of goods", 0, "k3j9x2m1q", 0),
                  createStateChangedEvent(id, "FUND", "PROPOSED", "FUNDED", "user-1", "BUYER", Undefined, 0, "k3j9x2m1q", 0),
                  createStateChangedEvent(id, "RELEASE", "FUNDED", "RELEASED", "user-1", "SELLER", Undefined, 0, "k3j9x2m1q", 0)>>]

\* maps of the store whose entries may be terminal
StoredMapsWithTerminal ==
    UNION {{m \in [ids -> UNION {StoredEntries(id) \cup {ReleasedEntry(id)} : id \in ids}] :
               \A id \in ids : m[id] \in StoredEntries(id) \cup {ReleasedEntry(id)}}
           : ids \in SUBSET TestIds}

InitAppend ==
    /\ clock = 0
    /\ loaded = TRUE
    /\ writable \in [Locations -> BOOLEAN]
    /\ cache \in StoredMapsWithTerminal
    /\ primaryFile = writeFileSync("primary", Missing, JSONstringify(cache))
    /\ secondaryFile = writeFileSync("secondary", Missing, JSONstringify(cache))
    /\ resp = NoResp
    /\ \E escrow \in AnySnapshots, event \in AnyEvents :
          call = [pc |-> "ready", fn |-> "store.update (any)", id |-> escrow.id,
                  escrow |-> escrow, event |-> event,
                  before |-> IF escrow.id \in DOMAIN cache THEN cache[escrow.id] ELSE Null]

\* escrowStore.update(call.escrow, call.event)
UpdateWithAny ==
    /\ call.pc = "ready"
    /\ call.fn = "store.update (any)"
    /\ loaded
    /\ LET r == update(cache, call.escrow, call.event)
       IN  /\ cache' = r.cache
           /\ IF r.threw
              THEN UNCHANGED <<primaryFile, secondaryFile>>
              ELSE persist(cache')
           /\ call' = [pc |-> "done", fn |-> call.fn, id |-> call.id,
                       escrow |-> call.escrow, event |-> call.event,
                       before |-> call.before, threw |-> r.threw]
    /\ UNCHANGED <<clock, loaded, writable, resp>>

NextAppend == UpdateWithAny

SpecAppend == InitAppend /\ [][NextAppend]_vars

(***************************************************************************)
(* Two ApplyAction requests for one escrow id in flight in one process.    *)
(* The handler gives up control at `await ctx.params` and at               *)
(* `await request.json()`; from performActionSchema.parse to the response  *)
(* it contains no await, so the lookup, applyAction and escrowStore.update *)
(* of one request run without the other request in between.                *)
(***************************************************************************)
\* the bodies of the two requests: any action by any role
RequestBodies == [action : EscrowAction, userRole : UserRole]

InitInFlight ==
    /\ clock = 0
    /\ loaded = TRUE
    /\ writable = [l \in Locations |-> TRUE]
    /\ cache \in StoredMaps
    /\ primaryFile = writeFileSync("primary", Missing, JSONstringify(cache))
    /\ secondaryFile = writeFileSync("secondary", Missing, JSONstringify(cache))
    /\ resp = NoResp
    /\ \E id \in TestIds :
          call \in [pc : {"inflight"},
                    fn : {"POST actions x 2"},
                    id : {id},
                    before : {getById(cache, id)},
                    requests : [1..2 -> RequestBodies],
                    at : {[i \in 1..2 |-> "await params"]},
                    status : {[i \in 1..2 |-> 0]},
                    ran : {<< >>}]

\* `const { id } = await ctx.params` of request i resumes
ResumeAfterParams(i) ==
    /\ call.pc = "inflight"
    /\ call.at[i] = "await params"
    /\ call' = [call EXCEPT !.at[i] = "await body"]
    /\ UNCHANGED <<clock, cache, loaded, primaryFile, secondaryFile, writable, resp>>

\* `const body = await request.json()` of request i resumes
ResumeAfterBody(i) ==
    /\ call.pc = "inflight"
    /\ call.at[i] = "await body"
    /\ call' = [call EXCEPT !.at[i] = "parsed"]
    /\ UNCHANGED <<clock, cache, loaded, primaryFile, secondaryFile, writable, resp>>

\* a handler that asks the state machine before it looks the escrow up: a
\* request the state machine cannot accept from PROPOSED is answered 400
\* whether or not the id is stored
RunToResponse_ValidateFirst(i) ==
    /\ call.pc = "inflight"
    /\ call.at[i] = "parsed"
    /\ LET escrowData == getById(cache, call.id)
           current == IF escrowData = Null THEN "PROPOSED" ELSE escrowData.currentState
           verdict == transitionState(current, call.requests[i].action,
                                      call.requests[i].userRole)
           status == IF ~verdict.success THEN 400
                     ELSE IF escrowData = Null THEN 404 ELSE 200
       IN  /\ call' = [call EXCEPT !.at[i] = "responded",
                                   !.status[i] = status,
                                   !.ran = Append(call.ran, i),
                                   !.pc = IF Len(call.ran) = 1 THEN "done" ELSE "inflight"]
           /\ resp' = IF status = 400
                      THEN [op |-> "apply", status |-> 400, error |-> verdict.error]
                      ELSE IF status = 404
                      THEN [op |-> "apply", status |-> 404, error |-> <<"Escrow not found">>]
                      ELSE [op |-> "apply", status |-> 200]
           /\ IF status = 200
              THEN /\ cache' = StoreUpdate(cache,
                                   [SnapshotOf(escrowData) EXCEPT !.currentState = verdict.newState],
                                   createStateChangedEvent(call.id, call.requests[i].action,
                                       current, verdict.newState, "user-1",
                                       call.requests[i].userRole, Undefined,
                                       clock, CHOOSE r \in Rnd : TRUE, clock))
                   /\ persist(cache')
              ELSE UNCHANGED <<cache, primaryFile, secondaryFile>>
    /\ UNCHANGED <<clock, loaded, writable>>

\* request i runs from performActionSchema.parse to its response
RunToResponse(i) ==
    /\ call.pc = "inflight"
    /\ call.at[i] = "parsed"
    /\ performActionSchemaOk(call.requests[i].action, "user-1", call.requests[i].userRole)
    /\ LET escrowData == getById(cache, call.id)
           answered(status) ==
               [call EXCEPT !.at[i] = "responded",
                            !.status[i] = status,
                            !.ran = Append(call.ran, i),
                            !.pc = IF Len(call.ran) = 1 THEN "done" ELSE "inflight"]
       IN  IF escrowData = Null
           THEN /\ call' = answered(404)
                /\ resp' = [op |-> "apply", status |-> 404, error |-> <<"Escrow not found">>]
                /\ UNCHANGED <<clock, cache, primaryFile, secondaryFile>>
           ELSE \E tId \in LaterReads(clock) :
                \E tStamp \in LaterReads(tId) :
                   LET result == applyAction(SnapshotOf(escrowData),
                                             call.requests[i].action, "user-1",
                                             call.requests[i].userRole, Undefined,
                                             clock, tId, CHOOSE r \in Rnd : TRUE, tStamp)
                   IN  IF result.success
                       THEN /\ cache' = StoreUpdate(cache, result.newEscrow, result.event)
                            /\ persist(cache')
                            /\ clock' = tStamp
                            /\ call' = answered(200)
                            /\ resp' = [op |-> "apply", status |-> 200]
                       ELSE /\ call' = answered(400)
                            /\ resp' = [op |-> "apply", status |-> 400, error |-> result.error]
                            /\ UNCHANGED <<clock, cache, primaryFile, secondaryFile>>
    /\ UNCHANGED <<loaded, writable>>

NextInFlight ==
    \E i \in 1..2 :
       \/ ResumeAfterParams(i)
       \/ ResumeAfterBody(i)
       \/ RunToResponse(i)

SpecInFlight == InitInFlight /\ [][NextInFlight]_vars

(***************************************************************************)
(* The two files over the life of a deployment: store calls of one process *)
(* after another, with writes that fail at one time and succeed at         *)
(* another (persist catches the error of each writeFileSync on its own),   *)
(* and a reconciliation at the start of each process.                      *)
(***************************************************************************)
\* the id the integration tests create again after each clear
ReusedId == "test-escrow-1"

\* escrowStore.create of an escrow made by createEscrow at the time t
CreateAt(t) ==
    /\ loaded
    /\ LET made == createEscrow(ReusedId, "buyer-123", "seller-456", 1000,
                                "Purchase of goods", t, t, CHOOSE r \in Rnd : TRUE, t)
       IN  /\ cache' = StoreCreate(cache, made.escrow, made.event)
           /\ persist(cache')
           /\ call' = [pc |-> "done", fn |-> "store.create", id |-> ReusedId,
                       escrow |-> made.escrow, event |-> made.event, threw |-> FALSE]
    /\ clock' = t
    /\ UNCHANGED <<loaded, writable, resp>>

\* escrowStore.update with the result of an accepted applyAction at the time t
UpdateAt(t, action, userRole) ==
    /\ loaded
    /\ getById(cache, ReusedId) /= Null
    /\ Len(cache[ReusedId].events) < MaxEvents
    /\ LET result == applyAction(SnapshotOf(getById(cache, ReusedId)), action, "user-1",
                                 userRole, Undefined, t, t, CHOOSE r \in Rnd : TRUE, t)
       IN  /\ result.success
           /\ cache' = update(cache, result.newEscrow, result.event).cache
           /\ persist(cache')
           /\ call' = [pc |-> "done", fn |-> "store.update", id |-> ReusedId,
                       escrow |-> result.newEscrow, event |-> result.event,
                       threw |-> FALSE]
    /\ clock' = t
    /\ UNCHANGED <<loaded, writable, resp>>

\* a location stops or starts accepting writes between two calls
WritesChange ==
    /\ writable' \in [Locations -> BOOLEAN] \ {writable}
    /\ UNCHANGED <<clock, cache, loaded, primaryFile, secondaryFile, resp, call>>

\* the process ends; the next one starts with an empty process-wide state
ProcessEnds ==
    /\ loaded
    /\ loaded' = FALSE
    /\ cache' = << >>
    /\ call' = [pc |-> "done", fn |-> "exit"]
    /\ UNCHANGED <<clock, primaryFile, secondaryFile, writable, resp>>

NextFiles ==
    \/ \E t \in LaterReads(clock) : CreateAt(t)
    \/ \E t \in LaterReads(clock), a \in EscrowAction, r \in UserRole : UpdateAt(t, a, r)
    \/ StoreClearCall
    \/ StoreGetByIdCall(ReusedId)
    \/ StoreListAllCall
    \/ StoreNewCall
    \/ WritesChange
    \/ ProcessEnds
    \/ ensureLoaded

SpecFiles == Init /\ [][NextFiles]_vars

(***************************************************************************)
(* Reading an error message: the three causes of a rejection.              *)
(***************************************************************************)
IsTerminalReason(error) == error[1] = "No actions allowed from terminal state "
IsRoleReason(error) == error[1] = "Role " /\ error[3] = " is not allowed to perform action "
IsInvalidTransitionReason(error) == error[1] = "Invalid transition: "

\* the five rows of the transition table of section 4.1, with the role each needs
TableRows ==
    {<<"PROPOSED", "FUND", "BUYER", "FUNDED">>,
     <<"FUNDED", "RELEASE", "SELLER", "RELEASED">>,
     <<"FUNDED", "DISPUTE", "BUYER", "DISPUTED">>,
     <<"DISPUTED", "RESOLVE_DISPUTE_RELEASE", "ADMIN", "RELEASED">>,
     <<"DISPUTED", "RESOLVE_DISPUTE_REFUND", "ADMIN", "REFUNDED">>}

\* the allowed set of each action as section 4.1 lists it
AllowedRoles(action) ==
    CASE action \in {"FUND", "DISPUTE"} -> {"BUYER"}
      [] action = "RELEASE" -> {"SELLER"}
      [] action \in {"RESOLVE_DISPUTE_RELEASE", "RESOLVE_DISPUTE_REFUND"} -> {"ADMIN"}
      [] OTHER -> {}

TerminalStates == {"RELEASED", "REFUNDED"}

CalledTransitionState == call.pc = "done" /\ call.fn = "transitionState"
CalledApplyAction == call.pc = "done" /\ call.fn = "applyAction"
CalledReconstructEscrow == call.pc = "done" /\ call.fn = "reconstructEscrow"

(***************************************************************************)
(* Properties of the state machine (section 4.1), checked under SpecFn.    *)
(***************************************************************************)
RowsOf(state, action, role) ==
    {row \in TableRows : row[1] = state /\ row[2] = action /\ row[3] = role}

\* C1: transitionState succeeds exactly on the five rows of the table, with
\* the row's target as newState; every other triple of the 5x6x3 input space
\* fails and carries no newState.
C1_SuccessIffTableRow ==
    CalledTransitionState =>
        LET rows == RowsOf(call.escrow.currentState, call.action, call.userRole)
        IN  IF rows /= {}
            THEN /\ call.result.success
                 /\ \A row \in rows : call.result.newState = row[4]
            ELSE /\ ~call.result.success
                 /\ "newState" \notin DOMAIN call.result
                 /\ "error" \in DOMAIN call.result

C1_Witness ==
    /\ CalledTransitionState
    /\ call.escrow.currentState = "DISPUTED"
    /\ call.action = "RESOLVE_DISPUTE_REFUND"
    /\ call.userRole = "ADMIN"
    /\ call.result.success

\* C2: applyAction on a snapshot in RELEASED or REFUNDED is rejected for
\* every action and role, and the reason is the terminal-state reason, also
\* when the role is not permitted for the action.
C2_TerminalRejectsWithTerminalReason ==
    (CalledApplyAction /\ call.escrow.currentState \in TerminalStates) =>
        /\ ~call.result.success
        /\ IsTerminalReason(call.result.error)
        /\ ~IsRoleReason(call.result.error)
        /\ ~IsInvalidTransitionReason(call.result.error)

C2_Witness ==
    /\ CalledApplyAction
    /\ call.escrow.currentState = "REFUNDED"
    /\ call.action = "FUND"
    /\ call.userRole = "SELLER"
    /\ ~call.result.success

\* C7: in a non-terminal state a role outside the action's allowed set is
\* rejected with the role-not-permitted reason, also when the (state, action)
\* pair is no row of the table.
C7_RoleGateBeforeTable ==
    (/\ CalledTransitionState
     /\ call.escrow.currentState \notin TerminalStates
     /\ call.userRole \notin AllowedRoles(call.action)) =>
        /\ ~call.result.success
        /\ IsRoleReason(call.result.error)

C7_Witness ==
    /\ CalledTransitionState
    /\ call.escrow.currentState = "PROPOSED"
    /\ call.action = "RELEASE"
    /\ call.userRole = "BUYER"
    /\ ~call.result.success

\* C8: in a non-terminal state, a permitted role with a (state, action) pair
\* that is no row of the table is rejected with the invalid-transition reason.
C8_PermittedRoleOffTable ==
    (/\ CalledTransitionState
     /\ call.escrow.currentState \notin TerminalStates
     /\ call.userRole \in AllowedRoles(call.action)
     /\ ~\E row \in TableRows : /\ row[1] = call.escrow.currentState
                                /\ row[2] = call.action) =>
        /\ ~call.result.success
        /\ IsInvalidTransitionReason(call.result.error)

C8_Witness ==
    /\ CalledTransitionState
    /\ call.escrow.currentState = "PROPOSED"
    /\ call.action = "RELEASE"
    /\ call.userRole = "SELLER"
    /\ ~call.result.success

\* C9: the bare REFUND action is rejected in every state for every role, by
\* transitionState and by applyAction, so no REFUND ever yields REFUNDED.
C9_BareRefundRejected ==
    ((CalledTransitionState \/ CalledApplyAction) /\ call.action = "REFUND") =>
        /\ ~call.result.success
        /\ "newState" \notin DOMAIN call.result
        /\ "newEscrow" \notin DOMAIN call.result

C9_Witness ==
    /\ CalledTransitionState
    /\ call.escrow.currentState = "DISPUTED"
    /\ call.action = "REFUND"
    /\ call.userRole = "ADMIN"
    /\ ~call.result.success

(***************************************************************************)
(* Properties of the stored escrows under CreateEscrow and ApplyAction     *)
(* requests, checked under Spec.                                           *)
(***************************************************************************)
\* the toState of the last STATE_CHANGED event, PROPOSED when there is none
LastToState(events) ==
    LET changes == {i \in 1..Len(events) : events[i].type = "STATE_CHANGED"}
    IN  IF changes = {} THEN "PROPOSED" ELSE events[Max(changes)].toState

\* C3: every stored escrow's currentState is the toState of the last
\* STATE_CHANGED event of its stored event list, or PROPOSED when the list
\* holds only the ESCROW_CREATED event.
C3_StateFollowsLastEvent ==
    \A id \in DOMAIN cache :
        /\ cache[id].escrow.currentState = LastToState(cache[id].events)
        /\ Len(cache[id].events) = 1 => cache[id].escrow.currentState = "PROPOSED"

C3_Witness ==
    \E id \in DOMAIN cache :
        /\ Len(cache[id].events) = 3
        /\ cache[id].escrow.currentState = "DISPUTED"

\* a step taken by an ApplyAction request: the response is the handler's
ApplyActionStep == resp'.op = "apply"

\* C4: once a stored escrow is RELEASED or REFUNDED, no ApplyAction request
\* changes its currentState or adds an event to its stored history.
C4_TerminalIsAbsorbing ==
    [][ApplyActionStep =>
        \A id \in DOMAIN cache :
            cache[id].escrow.currentState \in TerminalStates =>
                /\ id \in DOMAIN cache'
                /\ cache'[id].escrow.currentState = cache[id].escrow.currentState
                /\ cache'[id].events = cache[id].events]_vars

C4_Witness ==
    /\ \E id \in DOMAIN cache : cache[id].escrow.currentState = "REFUNDED"
    /\ resp.op = "apply"
    /\ resp.status = 400
    /\ IsTerminalReason(resp.error)

\* the edges of the transition table
TableEdges == {<<row[1], row[4]>> : row \in TableRows}

\* C5: every change of a stored currentState made by an ApplyAction request
\* is an edge of the transition table, every escrow enters the store in
\* PROPOSED, and no STATE_CHANGED event records another pair of states.
C5_OnlyTableEdges ==
    [][/\ \A id \in DOMAIN cache' \ DOMAIN cache :
              cache'[id].escrow.currentState = "PROPOSED"
       /\ ApplyActionStep =>
            \A id \in DOMAIN cache :
                \/ cache'[id].escrow.currentState = cache[id].escrow.currentState
                \/ <<cache[id].escrow.currentState,
                     cache'[id].escrow.currentState>> \in TableEdges
       /\ \A id \in DOMAIN cache' :
            \A i \in 1..Len(cache'[id].events) :
                cache'[id].events[i].type = "STATE_CHANGED" =>
                    <<cache'[id].events[i].fromState,
                      cache'[id].events[i].toState>> \in TableEdges]_vars

C5_Witness ==
    \E id \in DOMAIN cache :
        /\ cache[id].escrow.currentState = "RELEASED"
        /\ Len(cache[id].events) = 4
        /\ resp = [op |-> "apply", status |-> 200]

\* C6: a rejected applyAction returns success = false with an error and
\* with neither newEscrow nor event, and the ApplyAction request that got it
\* (status 400) leaves the map and both files as they were.
RejectionCarriesOnlyError ==
    \A id \in DOMAIN cache, a \in EscrowAction, role \in UserRole :
        LET result == applyAction(SnapshotOf(getById(cache, id)), a, "user-1",
                                  role, Undefined, clock, clock,
                                  CHOOSE r \in Rnd : TRUE, clock)
        IN  ~result.success => DOMAIN result = {"success", "error"}

C6_RejectionStoresNothing ==
    /\ []RejectionCarriesOnlyError
    /\ [][(ApplyActionStep /\ resp'.status = 400) =>
            /\ cache' = cache
            /\ primaryFile' = primaryFile
            /\ secondaryFile' = secondaryFile]_vars

C6_Witness ==
    /\ resp.op = "apply"
    /\ resp.status = 400
    /\ IsInvalidTransitionReason(resp.error)
    /\ Cardinality(DOMAIN cache) = 2

\* C10: reconstructEscrow of a stored history yields the stored snapshot in
\* every field: id, buyerId, sellerId, amount, description, currentState,
\* createdAt and updatedAt.
C10_RoundTrip ==
    \A id \in DOMAIN cache :
        LET rebuilt == reconstructEscrow(cache[id].events)
        IN  /\ rebuilt /= Null
            /\ SnapshotOf(rebuilt) = cache[id].escrow

(***************************************************************************)
(* Claims about the timestamps of a snapshot and the shape of a history.   *)
(***************************************************************************)
\* C11: for every stored escrow, the snapshot's createdAt equals the
\* timestamp of its ESCROW_CREATED event and its updatedAt equals the
\* timestamp of the latest event of its history.
C11_TimestampsMatchEvents ==
    \A id \in DOMAIN cache :
        LET escrow == cache[id].escrow
            events == cache[id].events
        IN  /\ escrow.createdAt = events[1].timestamp
            /\ escrow.updatedAt = events[Len(events)].timestamp

\* C12: reconstructEscrow returns null when the event sequence is empty and
\* whenever its first element is not an ESCROW_CREATED event, also when an
\* ESCROW_CREATED event stands at a later position.
C12_NullUnlessCreatedFirst ==
    CalledReconstructEscrow =>
        ((Len(call.events) = 0 \/ call.events[1].type /= "ESCROW_CREATED")
            => call.result = Null)

(***************************************************************************)
(* Properties of the store under direct calls, checked under SpecStore.    *)
(***************************************************************************)
CalledStore(fn) == call.pc = "done" /\ call.fn = fn

\* C13: store.update for an id that is not stored throws the not-found
\* error and leaves the map and both files exactly as they were: no entry is
\* created and no file is rewritten.
C13_UpdateOfUnknownIdChangesNothing ==
    [][(call'.fn = "store.update" /\ call'.id \notin DOMAIN cache) =>
          /\ call'.threw
          /\ call'.error = NotFoundError(call'.id)
          /\ cache' = cache
          /\ primaryFile' = primaryFile
          /\ secondaryFile' = secondaryFile]_vars

C13_Witness ==
    /\ CalledStore("store.update")
    /\ call.threw
    /\ call.id = "test-escrow-2"
    /\ DOMAIN cache = {"test-escrow-1"}
    /\ primaryFile = JSONstringify(cache)

\* C14: store.update on a stored id replaces the stored snapshot with the
\* given one and appends the given event at the end of the list: every
\* earlier event keeps its position and content, the list grows by one, and
\* getById afterwards returns the given snapshot with the whole list.
C14_UpdateReplacesAndAppends ==
    [][(call'.fn = "store.update" /\ call'.id \in DOMAIN cache) =>
          LET old == cache[call'.id].events
              new == cache'[call'.id].events
              got == getById(cache', call'.id)
          IN  /\ ~call'.threw
              /\ cache'[call'.id].escrow = call'.escrow
              /\ Len(new) = Len(old) + 1
              /\ \A i \in 1..Len(old) : new[i] = old[i]
              /\ new[Len(new)] = call'.event
              /\ SnapshotOf(got) = call'.escrow
              /\ got.events = new]_vars

\* two updates after a create: three events, ESCROW_CREATED first
C14_Witness ==
    /\ CalledStore("store.update")
    /\ ~call.threw
    /\ Len(cache[call.id].events) = 3
    /\ cache[call.id].events[1].type = "ESCROW_CREATED"
    /\ cache[call.id].events[3] = call.event
    /\ cache[call.id].escrow.currentState = "FUNDED"

\* s is a prefix of t
IsPrefix(s, t) == Len(s) <= Len(t) /\ \A i \in 1..Len(s) : t[i] = s[i]

\* C15: the stored event list of an id is append-only across store.create
\* and store.update calls: the list stored before such a call is a prefix of
\* the list stored after it, also when store.create is called for an id that
\* is already stored.
C15_AppendOnlyAcrossCreateAndUpdate ==
    [][call'.fn \in {"store.create", "store.update"} =>
          \A id \in DOMAIN cache :
              /\ id \in DOMAIN cache'
              /\ IsPrefix(cache[id].events, cache'[id].events)]_vars

(***************************************************************************)
(* The shape of a stored history under CreateEscrow and ApplyAction        *)
(* requests, checked under Spec.                                           *)
(***************************************************************************)
\* C16: the stored history of every id holds exactly one ESCROW_CREATED
\* event, at the first position, followed only by STATE_CHANGED events in
\* the order in which their transitions were accepted: each one starts in
\* the state the previous one reached and is not stamped before it.
C16_CreatedFirstThenChangesInOrder ==
    \A id \in DOMAIN cache :
        LET events == cache[id].events
        IN  /\ Len(events) >= 1
            /\ events[1].type = "ESCROW_CREATED"
            /\ \A i \in 2..Len(events) :
                  /\ events[i].type = "STATE_CHANGED"
                  /\ events[i].fromState =
                         (IF i = 2 THEN "PROPOSED" ELSE events[i - 1].toState)
                  /\ events[i].timestamp >= events[i - 1].timestamp

C16_Witness ==
    \E id \in DOMAIN cache :
        /\ resp.op = "apply"
        /\ resp.status = 200
        /\ Len(cache[id].events) = 3
        /\ cache[id].events[2].action = "FUND"
        /\ cache[id].events[3].action = "DISPUTE"

(***************************************************************************)
(* Two concurrent updates of one id, checked under SpecRace.               *)
(***************************************************************************)
\* C17: when two update calls for the same stored id are issued
\* concurrently, the stored list afterwards holds every earlier event in its
\* original position followed by both appended events, in the order in
\* which the two calls ran: neither append is lost.
C17_BothAppendsLand ==
    (call.pc = "done" /\ call.fn = "store.update x 2") =>
        LET new == cache[call.id].events
            n == Len(call.base)
        IN  /\ Len(new) = n + 2
            /\ \A i \in 1..n : new[i] = call.base[i]
            /\ new[n + 1] = call.pending[call.ran[1]].event
            /\ new[n + 2] = call.pending[call.ran[2]].event
            /\ {call.ran[1], call.ran[2]} = {1, 2}

\* the second call issued ran first, and the two calls append different events
C17_Witness ==
    /\ call.pc = "done"
    /\ call.fn = "store.update x 2"
    /\ call.ran = <<2, 1>>
    /\ call.pending[1].event /= call.pending[2].event
    /\ Len(call.base) = 2
    /\ Len(cache[call.id].events) = 4

(***************************************************************************)
(* The value returned by getById in the hands of a caller, checked under   *)
(* SpecView.                                                               *)
(***************************************************************************)
\* C18: whatever the caller does to the value returned by getById (its
\* snapshot fields, its events array, an event object or a timestamp
\* reached through it), a getById of the same id still returns the snapshot
\* and the events that were returned.
C18_ReturnedValueIsDetached ==
    (CalledStore("store.getById") /\ call.result /= Null) =>
        getById(cache, call.id) = call.result

(***************************************************************************)
(* Reconciliation of the two files on load, checked under SpecLoad.        *)
(***************************************************************************)
\* the ids and entries a file contributes to the load
SourceOf(file) == OrEmpty(readFileIfExists(file))

Loaded == call.pc = "done" /\ call.fn = "new EscrowStore"

\* C19: on load the reconciled map's key set is the union of the ids of
\* both sources; an id present in only one source is kept as is, and for an
\* id present in both the entry with the later updatedAt is retained whole,
\* snapshot and event list together, and the other one is discarded.
C19_LoadKeepsLaterEntryWhole ==
    Loaded =>
        LET a == SourceOf(call.primary)
            b == SourceOf(call.secondary)
        IN  /\ DOMAIN cache = DOMAIN a \cup DOMAIN b
            /\ \A id \in DOMAIN a \ DOMAIN b : cache[id] = a[id]
            /\ \A id \in DOMAIN b \ DOMAIN a : cache[id] = b[id]
            /\ \A id \in DOMAIN a \cap DOMAIN b :
                  /\ cache[id] \in {a[id], b[id]}
                  /\ a[id].escrow.updatedAt > b[id].escrow.updatedAt
                        => cache[id] = a[id]
                  /\ b[id].escrow.updatedAt > a[id].escrow.updatedAt
                        => cache[id] = b[id]

\* one id in both files, later in the second one, and one id in the first only
C19_Witness ==
    /\ Loaded
    /\ DOMAIN SourceOf(call.primary) = {"test-escrow-1", "test-escrow-2"}
    /\ DOMAIN SourceOf(call.secondary) = {"test-escrow-1"}
    /\ SourceOf(call.primary)["test-escrow-1"].escrow.currentState = "PROPOSED"
    /\ SourceOf(call.secondary)["test-escrow-1"].escrow.updatedAt = 1
    /\ cache["test-escrow-1"] = SourceOf(call.secondary)["test-escrow-1"]
    /\ Len(cache["test-escrow-1"].events) = 2
    /\ cache["test-escrow-2"] = SourceOf(call.primary)["test-escrow-2"]

(***************************************************************************)
(* The two files after a mutating call, checked under SpecStore.           *)
(***************************************************************************)
BothWritesSucceed == \A loc \in Locations : writable[loc]

\* C20: after a create, an update or a clear in which both file writes
\* succeed, both locations hold the same serialized content and that content
\* is the entire current map: every stored id with its snapshot and all of
\* its events.
C20_FilesHoldTheWholeMap ==
    (/\ call.pc = "done"
     /\ call.fn \in {"store.create", "store.update", "store.clear"}
     /\ ~call.threw
     /\ BothWritesSucceed) =>
        /\ primaryFile = secondaryFile
        /\ primaryFile = JSONstringify(cache)
        /\ DOMAIN primaryFile.content = DOMAIN cache
        /\ \A id \in DOMAIN cache :
              /\ primaryFile.content[id].escrow = StringifyEscrow(cache[id].escrow)
              /\ Len(primaryFile.content[id].events) = Len(cache[id].events)

C20_Witness ==
    /\ CalledStore("store.update")
    /\ ~call.threw
    /\ BothWritesSucceed
    /\ DOMAIN cache = TestIds
    /\ Len(cache[call.id].events) = 3
    /\ secondaryFile = JSONstringify(cache)

(***************************************************************************)
(* Write failures, checked under SpecStore: a location the process cannot  *)
(* write makes every write to it fail.                                     *)
(***************************************************************************)
SomeWriteFails == \E loc \in Locations : ~writable[loc]

\* C21: when the write to one or both locations fails during create, update
\* or clear, the call still returns without an error, the map holds the
\* result of the call, and getById in the same process returns it.
C21_FailedWriteKeepsTheCall ==
    (call.pc = "done" /\ SomeWriteFails) =>
        /\ call.fn = "store.create" =>
              /\ ~call.threw
              /\ call.id \in DOMAIN cache
              /\ cache[call.id] = [escrow |-> call.escrow, events |-> <<call.event>>]
              /\ SnapshotOf(getById(cache, call.id)) = call.escrow
              /\ getById(cache, call.id).events = <<call.event>>
        /\ (call.fn = "store.update" /\ call.threw) =>
              call.error = NotFoundError(call.id)
        /\ (call.fn = "store.update" /\ ~call.threw) =>
              LET got == getById(cache, call.id)
              IN  /\ got /= Null
                  /\ SnapshotOf(got) = call.escrow
                  /\ got.events[Len(got.events)] = call.event
                  /\ Len(got.events) >= 2
        /\ call.fn = "store.clear" =>
              /\ ~call.threw
              /\ cache = << >>
              /\ \A id \in TestIds : getById(cache, id) = Null

\* an update in a process that can write neither file
C21_Witness ==
    /\ CalledStore("store.update")
    /\ ~call.threw
    /\ \A loc \in Locations : ~writable[loc]
    /\ primaryFile = Missing
    /\ secondaryFile = Missing
    /\ Len(cache[call.id].events) = 2
    /\ cache[call.id].escrow.currentState = "FUNDED"

(***************************************************************************)
(* Unusable files on load, checked under SpecLoad.                         *)
(***************************************************************************)
\* a file that is missing, cannot be read or parsed, or holds an entry
\* without a snapshot
Unusable(file) ==
    \/ "missing" \in DOMAIN file
    \/ "corrupt" \in DOMAIN file
    \/ /\ "content" \in DOMAIN file
       /\ \E id \in DOMAIN file.content : "escrow" \notin DOMAIN file.content[id]

\* the entries of a usable file, with their dates revived
ContentOf(file) ==
    IF "empty" \in DOMAIN file
    THEN << >>
    ELSE [id \in DOMAIN file.content |-> Revive(file.content[id])]

\* C22: a location that is missing, unreadable, or whose content fails to
\* parse or revive counts as an empty source: the load completes and the
\* map equals the content of the other source, or is empty when both are
\* unusable.
C22_UnusableFileIsEmptySource ==
    Loaded =>
        /\ loaded
        /\ (Unusable(call.primary) /\ ~Unusable(call.secondary))
              => cache = ContentOf(call.secondary)
        /\ (Unusable(call.secondary) /\ ~Unusable(call.primary))
              => cache = ContentOf(call.primary)
        /\ (Unusable(call.primary) /\ Unusable(call.secondary))
              => cache = << >>

\* the first file holds one good and one damaged entry, the second one escrow
C22_Witness ==
    /\ Loaded
    /\ "content" \in DOMAIN call.primary
    /\ DOMAIN call.primary.content = TestIds
    /\ Unusable(call.primary)
    /\ ~Unusable(call.secondary)
    /\ DOMAIN cache = {"test-escrow-2"}
    /\ cache = ContentOf(call.secondary)
    /\ Len(cache["test-escrow-2"].events) = 2

(***************************************************************************)
(* More than one store object in a process, checked under SpecStore.       *)
(***************************************************************************)
\* C23: in a process that has loaded, one more EscrowStore instantiation
\* does not reconcile from disk again: it reuses the shared map, so what was
\* created or updated before is returned by getById afterwards, and the
\* files are left as they were.
C23_LaterInstancesShareTheMap ==
    [][call'.fn = "store.new" =>
          /\ loaded'
          /\ cache' = cache
          /\ \A id \in TestIds : getById(cache', id) = getById(cache, id)
          /\ primaryFile' = primaryFile
          /\ secondaryFile' = secondaryFile]_vars

\* a second store object in a process whose map holds two escrows that
\* neither file holds
C23_Witness ==
    /\ CalledStore("store.new")
    /\ DOMAIN cache = TestIds
    /\ Len(cache["test-escrow-1"].events) = 2
    /\ primaryFile = Missing
    /\ secondaryFile = Missing

(***************************************************************************)
(* Creation and the attributes of a stored escrow, checked under Spec.     *)
(***************************************************************************)
\* an entry as store.create leaves it: no update has appended to it
AsCreated(id) == Len(cache[id].events) = 1

\* C24: createEscrow followed by store.create leaves an entry for the id
\* whose currentState is PROPOSED, whose createdAt equals its updatedAt, and
\* whose event list is exactly one ESCROW_CREATED event carrying the id,
\* buyerId, sellerId, amount and description of the snapshot.
C24_CreatedEntry ==
    /\ (resp.op = "create" /\ resp.status = 201) =>
          \E id \in DOMAIN cache : AsCreated(id)
    /\ \A id \in DOMAIN cache :
          AsCreated(id) =>
              LET escrow == cache[id].escrow
                  event == cache[id].events[1]
              IN  /\ escrow.id = id
                  /\ escrow.currentState = "PROPOSED"
                  /\ escrow.createdAt = escrow.updatedAt
                  /\ event.type = "ESCROW_CREATED"
                  /\ event.escrowId = escrow.id
                  /\ event.buyerId = escrow.buyerId
                  /\ event.sellerId = escrow.sellerId
                  /\ event.amount = escrow.amount
                  /\ event.description = escrow.description

\* an escrow created while the clock advanced between the clock reads
C24_Witness ==
    /\ resp.op = "create"
    /\ resp.status = 201
    /\ \E id \in DOMAIN cache :
          /\ AsCreated(id)
          /\ cache[id].escrow.createdAt = 0
          /\ cache[id].events[1].timestamp = 1
          /\ cache[id].escrow.amount = 1000

(***************************************************************************)
(* applyAction and reconstructEscrow as functions, checked under SpecFn.   *)
(***************************************************************************)
ImmutableFields == {"id", "buyerId", "sellerId", "amount", "description", "createdAt"}

\* what an accepted call of applyAction returns
AcceptedResultIsFramed ==
    (CalledApplyAction /\ call.result.success) =>
        LET input == call.escrow
            output == call.result.newEscrow
            event == call.result.event
        IN  /\ DOMAIN output = DOMAIN input
            /\ \A f \in ImmutableFields : output[f] = input[f]
            /\ \E row \in RowsOf(input.currentState, call.action, call.userRole) :
                  output.currentState = row[4]
            /\ output.updatedAt >= input.updatedAt
            /\ output.updatedAt <= clock
            /\ event.type = "STATE_CHANGED"
            /\ event.escrowId = input.id
            /\ event.fromState = input.currentState
            /\ event.toState = output.currentState
            /\ event.action = call.action
            /\ event.performedBy = call.performedBy
            /\ event.userRole = call.userRole
            /\ event.reason = call.reason

\* C25: on acceptance applyAction returns a new snapshot equal to the input
\* in id, buyerId, sellerId, amount, description and createdAt, with
\* currentState the table's next state and updatedAt the time of the call;
\* the input snapshot is left as it was; the returned STATE_CHANGED event
\* carries the input's id and currentState, the new state, and the given
\* action, performedBy, role and reason.
C25_AcceptanceChangesStateAndUpdatedAtOnly ==
    /\ []AcceptedResultIsFramed
    /\ [][call'.fn = "applyAction" => call'.escrow = call.escrow]_vars

\* a dispute with a reason, accepted after the clock has advanced
C25_Witness ==
    /\ CalledApplyAction
    /\ call.result.success
    /\ call.action = "DISPUTE"
    /\ call.reason = "item damaged"
    /\ call.result.event.reason = "item damaged"
    /\ call.escrow.updatedAt = 0
    /\ call.result.newEscrow.updatedAt = 1
    /\ call.result.newEscrow.currentState = "DISPUTED"

\* C26: for a sequence whose first element is ESCROW_CREATED,
\* reconstructEscrow takes id, buyerId, sellerId, amount and description
\* from that event, sets currentState to the toState of the last
\* STATE_CHANGED event in sequence order (PROPOSED if there is none, with no
\* check that fromState matches), createdAt to the ESCROW_CREATED timestamp
\* and updatedAt to the timestamp of the last element.
C26_ReplayOfCreatedFirst ==
    (/\ CalledReconstructEscrow
     /\ Len(call.events) >= 1
     /\ call.events[1].type = "ESCROW_CREATED") =>
        LET created == call.events[1]
            result == call.result
        IN  /\ result /= Null
            /\ result.id = created.escrowId
            /\ result.buyerId = created.buyerId
            /\ result.sellerId = created.sellerId
            /\ result.amount = created.amount
            /\ result.description = created.description
            /\ result.currentState = LastToState(call.events)
            /\ result.createdAt = created.timestamp
            /\ result.updatedAt = call.events[Len(call.events)].timestamp
            /\ result.events = call.events

\* a RELEASE stamped 1 followed by a FUND stamped 0: the FUND decides
C26_Witness ==
    /\ CalledReconstructEscrow
    /\ Len(call.events) = 3
    /\ call.events[1].type = "ESCROW_CREATED"
    /\ call.events[2].type = "STATE_CHANGED"
    /\ call.events[2].action = "RELEASE"
    /\ call.events[2].timestamp = 1
    /\ call.events[3].type = "STATE_CHANGED"
    /\ call.events[3].action = "FUND"
    /\ call.events[3].timestamp = 0
    /\ call.result.currentState = "FUNDED"
    /\ call.result.updatedAt = 0

(***************************************************************************)
(* The store applies no business rule, checked under SpecAppend.           *)
(***************************************************************************)
\* C27: for an id that is stored, store.update accepts every pair of a
\* snapshot and an event and appends the event, whatever the stored
\* currentState (terminal or not), whether or not the event's fromState is
\* the stored currentState, and whether or not the event's escrowId is the
\* snapshot's id.
C27_UpdateAcceptsAnyPair ==
    (/\ call.pc = "done"
     /\ call.fn = "store.update (any)"
     /\ call.before /= Null) =>
        /\ ~call.threw
        /\ cache[call.id].escrow = call.escrow
        /\ cache[call.id].events = Append(call.before.events, call.event)

\* a released escrow takes a FUND event of another escrow and goes back to
\* PROPOSED
C27_Witness ==
    /\ call.pc = "done"
    /\ call.fn = "store.update (any)"
    /\ call.before /= Null
    /\ call.before.escrow.currentState = "RELEASED"
    /\ call.event.type = "STATE_CHANGED"
    /\ call.event.fromState = "PROPOSED"
    /\ call.event.escrowId /= call.escrow.id
    /\ call.escrow.currentState = "PROPOSED"
    /\ Len(cache[call.id].events) = 4
    /\ cache[call.id].events[4] = call.event

(***************************************************************************)
(* Concurrent ApplyAction requests.                                        *)
(***************************************************************************)
BothResponded == call.pc = "done" /\ call.fn = "POST actions x 2"

\* the verdict of the state machine on request i from the state `state`
Verdict(state, i) ==
    transitionState(state, call.requests[i].action, call.requests[i].userRole)

\* the state a request leaves behind: the next state if it is valid from
\* `state`, and `state` itself if it is not
LeftBy(state, i) ==
    IF Verdict(state, i).success THEN Verdict(state, i).newState ELSE state

StatusFrom(state, i) == IF Verdict(state, i).success THEN 200 ELSE 400

\* the event at position k of the stored history is the event of request i
\* accepted from the state `state`
IsEventOf(k, state, i) ==
    LET e == cache[call.id].events[k]
    IN  /\ e.type = "STATE_CHANGED"
        /\ e.escrowId = call.id
        /\ e.action = call.requests[i].action
        /\ e.userRole = call.requests[i].userRole
        /\ e.fromState = state
        /\ e.toState = Verdict(state, i).newState

\* C28: when two ApplyAction requests for one stored escrow id are in flight
\* in one process, then in whatever order their handlers resume from their
\* await points, the request that runs first is validated against the stored
\* state and the one that runs second against the state the first left
\* behind; of two requests that are both valid from the stored state exactly
\* one is answered 200 and the other 400; and the stored history is the
\* history from before followed by exactly one event per accepted request, in
\* the order in which they ran.
C28_ConcurrentRequestsAreSerialised ==
    (BothResponded /\ call.before /= Null) =>
        LET first == call.ran[1]
            second == call.ran[2]
            s0 == call.before.currentState
            s1 == LeftBy(s0, first)
            s2 == LeftBy(s1, second)
            base == Len(call.before.events)
            n1 == IF Verdict(s0, first).success THEN 1 ELSE 0
            n2 == IF Verdict(s1, second).success THEN 1 ELSE 0
            stored == cache[call.id].events
        IN  /\ call.status[first] = StatusFrom(s0, first)
            /\ call.status[second] = StatusFrom(s1, second)
            /\ (Verdict(s0, 1).success /\ Verdict(s0, 2).success) =>
                   {call.status[1], call.status[2]} = {200, 400}
            /\ cache[call.id].escrow.currentState = s2
            /\ Len(stored) = base + n1 + n2
            /\ SubSeq(stored, 1, base) = call.before.events
            /\ n1 = 1 => IsEventOf(base + 1, s0, first)
            /\ n2 = 1 => IsEventOf(base + n1 + 1, s1, second)

\* a release by the seller and a dispute by the buyer raced for a funded
\* escrow, the second request resumed from its first await before the first
\* request ran, and one of the two was rejected
C28_Witness ==
    /\ BothResponded
    /\ call.before /= Null
    /\ call.before.currentState = "FUNDED"
    /\ call.requests[1] = [action |-> "RELEASE", userRole |-> "SELLER"]
    /\ call.requests[2] = [action |-> "DISPUTE", userRole |-> "BUYER"]
    /\ call.ran = <<2, 1>>
    /\ call.status = <<400, 200>>
    /\ cache[call.id].escrow.currentState = "DISPUTED"

(***************************************************************************)
(* The histories of the two files, checked under SpecFiles.                *)
(***************************************************************************)
\* C29: whenever reconciliation finds the same id in both sources with
\* different updatedAt, the event list of the entry it retains (the later
\* one) has the event list of the entry it discards as a prefix, for the
\* file contents that create, update and clear calls with failing writes
\* leave behind.
C29_RetainedHistoryExtendsDiscarded ==
    Loaded =>
        LET a == SourceOf(call.primary)
            b == SourceOf(call.secondary)
        IN  \A id \in DOMAIN a \cap DOMAIN b :
               /\ a[id].escrow.updatedAt > b[id].escrow.updatedAt
                     => cache[id] = a[id] /\ IsPrefix(b[id].events, a[id].events)
               /\ b[id].escrow.updatedAt > a[id].escrow.updatedAt
                     => cache[id] = b[id] /\ IsPrefix(a[id].events, b[id].events)

(***************************************************************************)
(* The attributes of a stored escrow across accepted requests.             *)
(***************************************************************************)
\* C30: a step of the ApplyAction handler that answers 200 leaves the set of
\* stored ids as it was and, in every stored snapshot, leaves id, buyerId,
\* sellerId, amount, description and createdAt at their values; what it
\* changes in a snapshot is among currentState and updatedAt.
C30_AcceptedRequestsKeepTheAttributes ==
    [][(resp'.op = "apply" /\ resp'.status = 200) =>
          /\ DOMAIN cache' = DOMAIN cache
          /\ \A id \in DOMAIN cache :
                /\ \A f \in ImmutableFields :
                      cache'[id].escrow[f] = cache[id].escrow[f]
                /\ DOMAIN cache'[id].escrow = DOMAIN cache[id].escrow]_vars

\* an escrow created at time 0 was funded and then disputed at time 1
C30_Witness ==
    /\ resp.op = "apply"
    /\ resp.status = 200
    /\ \E id \in DOMAIN cache :
          /\ cache[id].escrow.currentState = "DISPUTED"
          /\ cache[id].escrow.createdAt = 0
          /\ cache[id].escrow.updatedAt = 1
          /\ cache[id].escrow.id = id
          /\ cache[id].escrow.amount = 1000
          /\ Len(cache[id].events) = 3

(***************************************************************************)
(* Requests for an id that is not stored.                                  *)
(***************************************************************************)
InFlight == call.pc \in {"inflight", "done"} /\ call.fn = "POST actions x 2"

\* C31: an ApplyAction request for an id that is not in the store is
\* answered 404 "Escrow not found" whatever its action and role are (the
\* state machine, which would answer 400 for some of them, is not asked),
\* and it changes neither the map nor the files: no entry appears for the id.
C31_UnknownIdIsNotFound ==
    [][(InFlight /\ call.id \notin DOMAIN cache /\ call'.ran /= call.ran) =>
          LET i == call'.ran[Len(call'.ran)]
          IN  /\ call'.status[i] = 404
              /\ resp' = [op |-> "apply", status |-> 404, error |-> <<"Escrow not found">>]
              /\ cache' = cache
              /\ call.id \notin DOMAIN cache'
              /\ primaryFile' = primaryFile
              /\ secondaryFile' = secondaryFile]_vars

\* a refund by the buyer, which the state machine rejects from every state,
\* and a funding by the buyer were both answered 404 for an id that is not
\* stored while another escrow is
C31_Witness ==
    /\ call.pc = "done"
    /\ call.fn = "POST actions x 2"
    /\ call.before = Null
    /\ call.id \notin DOMAIN cache
    /\ cache /= << >>
    /\ call.requests[1] = [action |-> "REFUND", userRole |-> "BUYER"]
    /\ call.requests[2] = [action |-> "FUND", userRole |-> "BUYER"]
    /\ call.status = <<404, 404>>

(***************************************************************************)
(* clear(), checked under SpecFiles, where a file can keep entries that    *)
(* the map no longer has.                                                  *)
(***************************************************************************)
EmptyFile == JSONstringify(<< >>)

\* the step ends with one of the calls `fns` as the last call made
Returned(fns) == call'.pc = "done" /\ call'.fn \in fns

\* C32: a clear() leaves the process-wide map empty and marked as loaded, so
\* that listAll returns nothing and getById returns null for every id, and
\* it leaves the empty map in each location whose write succeeds; and in a
\* process that has loaded, getById, listAll and `new EscrowStore()` leave
\* the map as it is, whatever the files hold, so that what a clear removed
\* from the map does not come back from a file.
C32_ClearedEntriesStayAway ==
    [][/\ (Returned({"store.clear"}) /\ writable' = writable) =>
              /\ cache' = << >>
              /\ loaded'
              /\ listAll(cache') = {}
              /\ \A id \in TestIds : getById(cache', id) = Null
              /\ writable["primary"] => primaryFile' = EmptyFile
              /\ writable["secondary"] => secondaryFile' = EmptyFile
       /\ (loaded /\ Returned({"store.getById", "store.listAll", "store.new"})) =>
              /\ cache' = cache
              /\ loaded'
              /\ call'.fn = "store.getById" => call'.result = getById(cache, call'.id)
              /\ call'.fn = "store.listAll" => call'.result = listAll(cache)]_vars

\* after a clear whose writes failed, both files still hold the escrow, and
\* a new store object of the same process sees the empty map
C32_Witness ==
    /\ loaded
    /\ call.pc = "done"
    /\ call.fn = "store.new"
    /\ cache = << >>
    /\ "content" \in DOMAIN primaryFile
    /\ "content" \in DOMAIN secondaryFile
    /\ ReusedId \in DOMAIN SourceOf(primaryFile)
    /\ ReusedId \in DOMAIN SourceOf(secondaryFile)

(***************************************************************************)
(* The length of a stored history.                                         *)
(***************************************************************************)
\* the states an escrow has been in, in order: PROPOSED, then the toState of
\* each STATE_CHANGED event of its history
StatesEntered(events) ==
    [k \in 1..Len(events) |->
        IF events[k].type = "STATE_CHANGED" THEN events[k].toState ELSE "PROPOSED"]

\* C33: under any sequence of CreateEscrow and ApplyAction requests a stored
\* history holds at most four events, of which at most three are
\* STATE_CHANGED events, and the escrow has entered no state twice.
C33_AtMostThreeTransitions ==
    \A id \in DOMAIN cache :
       LET events == cache[id].events
           entered == StatesEntered(events)
       IN  /\ Len(events) <= 4
           /\ Cardinality(IndicesOfType(events, "STATE_CHANGED")) <= 3
           /\ \A j, k \in 1..Len(events) : entered[j] = entered[k] => j = k

\* the longest life: funded, disputed and resolved by a refund
C33_Witness ==
    \E id \in DOMAIN cache :
       /\ Len(cache[id].events) = 4
       /\ StatesEntered(cache[id].events) = <<"PROPOSED", "FUNDED", "DISPUTED", "REFUNDED">>
       /\ cache[id].escrow.currentState = "REFUNDED"

(***************************************************************************)
(* The chain of states in a stored history.                                *)
(***************************************************************************)
\* C34: in every history stored through CreateEscrow and ApplyAction
\* requests the fromState of each STATE_CHANGED event is the toState of the
\* STATE_CHANGED event before it, and PROPOSED for the first one.
C34_EventsFormOneChain ==
    \A id \in DOMAIN cache :
       LET events == cache[id].events
       IN  \A k \in IndicesOfType(events, "STATE_CHANGED") :
              events[k].fromState = LastToState(SubSeq(events, 1, k - 1))

\* a history with three links: funded, disputed, resolved by a release
C34_Witness ==
    \E id \in DOMAIN cache :
       LET events == cache[id].events
       IN  /\ Len(events) = 4
           /\ events[2].fromState = "PROPOSED" /\ events[2].toState = "FUNDED"
           /\ events[3].fromState = "FUNDED" /\ events[3].toState = "DISPUTED"
           /\ events[4].fromState = "DISPUTED" /\ events[4].toState = "RELEASED"

(***************************************************************************)
(* The stored events against the transition table.                         *)
(***************************************************************************)
\* the event at position k of `events` is the STATE_CHANGED event of `action`
\* performed in the role `role`
IsActionBy(events, k, action, role) ==
    /\ events[k].type = "STATE_CHANGED"
    /\ events[k].action = action
    /\ events[k].userRole = role

\* C35: every STATE_CHANGED event stored through ApplyAction requests has a
\* (fromState, action, role, toState) tuple that is one of the five rows of
\* the table; the history of every escrow in REFUNDED holds, in this order,
\* FUND by BUYER, DISPUTE by BUYER and RESOLVE_DISPUTE_REFUND by ADMIN; and
\* the history of every escrow in RELEASED or REFUNDED holds a FUND by BUYER
\* before the event that ended it.
C35_StoredEventsAreTableRows ==
    \A id \in DOMAIN cache :
       LET events == cache[id].events
           n == Len(events)
           state == cache[id].escrow.currentState
       IN  /\ \A k \in IndicesOfType(events, "STATE_CHANGED") :
                 <<events[k].fromState, events[k].action,
                   events[k].userRole, events[k].toState>> \in TableRows
           /\ state = "REFUNDED" =>
                 \E i, j, k \in 1..n :
                    /\ i < j /\ j < k
                    /\ IsActionBy(events, i, "FUND", "BUYER")
                    /\ IsActionBy(events, j, "DISPUTE", "BUYER")
                    /\ IsActionBy(events, k, "RESOLVE_DISPUTE_REFUND", "ADMIN")
           /\ isTerminalState(state) =>
                 /\ events[n].type = "STATE_CHANGED"
                 /\ events[n].toState = state
                 /\ \E i \in 1..(n - 1) : IsActionBy(events, i, "FUND", "BUYER")

\* one escrow released by its seller and one refunded by the admin
C35_Witness ==
    \E id1, id2 \in DOMAIN cache :
       /\ cache[id1].escrow.currentState = "RELEASED"
       /\ IsActionBy(cache[id1].events, Len(cache[id1].events), "RELEASE", "SELLER")
       /\ cache[id2].escrow.currentState = "REFUNDED"
       /\ IsActionBy(cache[id2].events, 4, "RESOLVE_DISPUTE_REFUND", "ADMIN")

(***************************************************************************)
(* Progress of an escrow, checked under SpecLive.                          *)
(***************************************************************************)
\* the states transitionState lets an escrow move to from `state`
NextStatesOf(state) ==
    {transitionState(state, a, r).newState :
        <<a, r>> \in {p \in EscrowAction \X UserRole :
                         transitionState(state, p[1], p[2]).success}}

\* the states reached from `states` by at most n accepted transitions
RECURSIVE ReachedFrom(_, _)
ReachedFrom(states, n) ==
    IF n = 0
    THEN states
    ELSE ReachedFrom(states \cup UNION {NextStatesOf(s) : s \in states}, n - 1)

EveryStateCanEnd ==
    \A state \in EscrowState :
       ~isTerminalState(state) =>
          /\ NextStatesOf(state) /= {}
          /\ \E t \in ReachedFrom({state}, Cardinality(EscrowState)) : isTerminalState(t)

Ended(id) == id \in DOMAIN cache /\ isTerminalState(cache[id].escrow.currentState)

\* C36: every non-terminal state has an (action, role) pair that
\* transitionState accepts, a terminal state can be reached from it by
\* accepted transitions, and when accepted requests keep being made for
\* every escrow that can accept one, every stored escrow eventually is in
\* RELEASED or REFUNDED.
C36_EveryEscrowEnds ==
    /\ []EveryStateCanEnd
    /\ \A id \in EscrowIds : (id \in DOMAIN cache) ~> Ended(id)

\* both escrows have ended, one by the seller's release and one by the
\* admin's resolution of a dispute
C36_Witness ==
    /\ DOMAIN cache = EscrowIds
    /\ \A id \in EscrowIds : Ended(id)
    /\ \E id \in EscrowIds : Len(cache[id].events) = 3
    /\ \E id \in EscrowIds : Len(cache[id].events) = 4

(***************************************************************************)
(* The actions the page offers, checked under SpecFn.                      *)
(***************************************************************************)
CalledGetAvailableActions == call.pc = "done" /\ call.fn = "getAvailableActions"

\* the elements of a sequence
Elements(seq) == {seq[k] : k \in 1..Len(seq)}

\* C37: for every state and role the actions getAvailableActions offers are
\* exactly the actions transitionState accepts for that state and role,
\* each offered once; none is offered in RELEASED or REFUNDED, REFUND is
\* never offered, and nothing is offered when no escrow is selected.
C37_OfferedIffAccepted ==
    CalledGetAvailableActions =>
        IF call.selectedEscrow = Null
        THEN call.result = << >>
        ELSE LET state == call.selectedEscrow.escrow.currentState
                 accepted == {a \in EscrowAction :
                                 transitionState(state, a, call.currentUser).success}
             IN  /\ Elements(call.result) = accepted
                 /\ Len(call.result) = Cardinality(accepted)
                 /\ isTerminalState(state) => call.result = << >>
                 /\ "REFUND" \notin Elements(call.result)

\* the admin looking at a disputed escrow is offered the two resolutions
C37_Witness ==
    /\ CalledGetAvailableActions
    /\ call.selectedEscrow /= Null
    /\ call.selectedEscrow.escrow.currentState = "DISPUTED"
    /\ call.currentUser = "ADMIN"
    /\ call.result = <<"RESOLVE_DISPUTE_RELEASE", "RESOLVE_DISPUTE_REFUND">>

(***************************************************************************)
(* Equal updatedAt in both files, checked under SpecLoad.                  *)
(***************************************************************************)
\* C38: when the same id is in both sources with equal updatedAt, the load
\* retains the entry of the primary location, snapshot and events.
C38_TieKeepsPrimary ==
    Loaded =>
        LET a == SourceOf(call.primary)
            b == SourceOf(call.secondary)
        IN  \A id \in DOMAIN a \cap DOMAIN b :
               a[id].escrow.updatedAt = b[id].escrow.updatedAt => cache[id] = a[id]

\* the primary file holds the escrow as created and the secondary file holds
\* it as funded in the same millisecond: the load keeps it as created
C38_Witness ==
    /\ Loaded
    /\ LET a == SourceOf(call.primary)
           b == SourceOf(call.secondary)
       IN  \E id \in DOMAIN a \cap DOMAIN b :
              /\ a[id].escrow.updatedAt = b[id].escrow.updatedAt
              /\ a[id].escrow.currentState = "PROPOSED"
              /\ b[id].escrow.currentState = "FUNDED"
              /\ Len(b[id].events) = 2
              /\ cache[id].escrow.currentState = "PROPOSED"
              /\ Len(cache[id].events) = 1

(***************************************************************************)
(* What a load writes, checked under SpecLoad.                             *)
(***************************************************************************)
\* C39: the load of a process leaves the secondary file as it is and leaves
\* the primary file as it is when that file exists, whatever it holds; when
\* the primary file does not exist the load writes the reconciled map there
\* if the write succeeds; and getById, listAll and `new EscrowStore()` after
\* the load write no file, so that each file that existed holds its
\* pre-load content until the first create, update or clear.
C39_LoadRewritesNoExistingFile ==
    [][/\ (~loaded /\ Returned({"new EscrowStore"})) =>
              /\ secondaryFile' = secondaryFile
              /\ primaryFile /= Missing => primaryFile' = primaryFile
              /\ primaryFile = Missing =>
                    primaryFile' = IF writable["primary"]
                                   THEN JSONstringify(cache')
                                   ELSE Missing
       /\ (loaded /\ Returned({"store.getById", "store.listAll", "store.new"})) =>
              /\ primaryFile' = primaryFile
              /\ secondaryFile' = secondaryFile]_vars

\* both files existed with different maps, the reconciled map is that of
\* neither file alone, and after the load each file holds what it held
C39_Witness ==
    /\ Loaded
    /\ "content" \in DOMAIN call.primary
    /\ "content" \in DOMAIN call.secondary
    /\ call.primary /= call.secondary
    /\ SourceOf(call.primary) /= << >>
    /\ SourceOf(call.secondary) /= << >>
    /\ cache /= SourceOf(call.primary)
    /\ cache /= SourceOf(call.secondary)
    /\ primaryFile = call.primary
    /\ secondaryFile = call.secondary

====
